---- MODULE Spec2Model ----
(***************************************************************************)
(* A model of the microgrid API client (frequenz.client.microgrid):        *)
(*   - the one-shot wrappers set_component_power_active / _reactive and    *)
(*     set_bounds with their local argument validation,                    *)
(*   - the defensive decoder component_from_proto,                         *)
(*   - the gRPC error translation ClientError.from_grpc_error,             *)
(*   - the per-client registry of data-stream broadcasters, the pump of a  *)
(*     broadcaster with its retry strategy, and the receivers,             *)
(*   - the typed data methods (meter_data, battery_data) with their        *)
(*     category check,                                                     *)
(*   - the read operations list_components and list_connections with the   *)
(*     decoders of connections and of ComponentData messages,              *)
(*   - the close of the client and of a receiver,                          *)
(*   - the legacy state enums with from_pb, and Lifetime.active,           *)
(*   - _category_matches on its own,                                       *)
(*   - tasks that ask for a data stream concurrently,                      *)
(*   - active as a cached property, read while the clock advances,         *)
(*   - the map object the read operations return, and its iteration.       *)
(* Optional values (Python None) are sequences: <<>> is None, <<v>> is v.  *)
(***************************************************************************)
EXTENDS Integers, Sequences, FiniteSets, TLC

None == <<>>
Some(v) == <<v>>

\* ------------------------------------------------------------------------
\* Bounds of the model
\* ------------------------------------------------------------------------

\* Stub calls a run makes at most (the mock's call counter is capped here).
MaxCalls == 2

\* Entries of metric_config_bounds a message carries at most.
MaxBounds == 2

\* ------------------------------------------------------------------------
\* State
\* ------------------------------------------------------------------------

VARIABLES
    call_count,     \* stub calls made so far (mock_stub.<method>.call_count, summed)
    call_args,      \* the request of the most recent stub call, None before any
    last_op,        \* the most recent client operation: its arguments and outcome
    wire_message,   \* the message, response or argument handed to a function
    decoded,        \* what the function gave for it, None before the call
    grpc_failure,   \* a failed call: the server_url, the operation and the gRPC error
    client_error,   \* the error from_grpc_error made of it, None before the call
    hash_of,        \* hash() of this process on the frozensets of metric values
    retry_limit,    \* the limit of the client's retry strategy, None for no limit
    broadcasters,   \* the registry of the client: stream key -> index into pumps
    pumps,          \* every broadcaster constructed so far, in order of construction
    last_sub,       \* the stream request of the last step, if it was one
    sub_count,      \* stream requests made so far
    client_closed,  \* the client was closed: it has no channel and no stub
    callers         \* the tasks that call the client concurrently, and where each is

powerVars == <<call_count, call_args, last_op>>

decodeVars == <<wire_message, decoded>>

errorVars == <<grpc_failure, client_error>>

streamVars == <<hash_of, retry_limit, broadcasters, pumps, last_sub, sub_count,
                client_closed, callers>>

vars == <<call_count, call_args, last_op, wire_message, decoded, grpc_failure,
          client_error, hash_of, retry_limit, broadcasters, pumps, last_sub,
          sub_count, client_closed, callers>>

\* ------------------------------------------------------------------------
\* set_component_power_active / set_component_power_reactive
\* ------------------------------------------------------------------------

\* Powers (float): NaN and some ordinary values (tests/test_client.py:575).
PowerValues == {"nan", "-75.0", "0.1", "134.0"}

\* Request lifetimes (timedelta | None) in tenths of a second.
LifetimeValues == {None, Some(94), Some(95), Some(600), Some(9005), Some(9015)}

\* A rounding of a number of tenths to whole units that rounds a half up.
RoundHalfUpTenths(t) == (t + 5) \div 10

\* Python's round() of a number of tenths to whole units: round half to even.
PyRoundTenths(t) ==
    LET q == t \div 10
        r == t % 10
    IN  IF r < 5 THEN q
        ELSE IF r > 5 THEN q + 1
        ELSE IF q % 2 = 0 THEN q ELSE q + 1

\* _delta_to_seconds: round(delta.total_seconds()), or None for None.
_delta_to_seconds(delta) ==
    IF delta # None THEN Some(PyRoundTenths(delta[1])) ELSE None

minimum_lifetime == 10
maximum_lifetime == 900

\* _validate_set_power_args with the upper limit of the lifetime left out.
ValidateSetPowerNoMaximum(power, request_lifetime) ==
    IF power = "nan" THEN "ValueError"
    ELSE IF request_lifetime # None /\ ~(minimum_lifetime <= request_lifetime[1])
         THEN "ValueError"
         ELSE "ok"

\* _validate_set_power_args: "ok", or the ValueError it raises.
_validate_set_power_args(power, request_lifetime) ==
    IF power = "nan" THEN "ValueError"
    ELSE IF request_lifetime # None
            /\ ~(minimum_lifetime <= request_lifetime[1]
                 /\ request_lifetime[1] <= maximum_lifetime)
         THEN "ValueError"
         ELSE "ok"

\* _get_component_id: the integer id of a ComponentId or of a Component.
_get_component_id(component) ==
    IF component.kind = "ComponentId" THEN component.id
    ELSE component.id

\* The component arguments a caller passes: a ComponentId or a Component.
ComponentArgs ==
    [kind : {"ComponentId", "Component"}, id : {83}]

\* What the server (the stub) can answer to a one-shot call.
StubOutcomes == {"ok", "grpc_error"}

\* The record kept of the most recent operation.
OpRecord(op, power, delta, seconds, validate, lower, upper, outcome) ==
    [op |-> op, power |-> power, delta |-> delta, seconds |-> seconds,
     validate |-> validate, lower |-> lower, upper |-> upper,
     outcome |-> outcome, calls_before |-> call_count]

NoOp == [op |-> "none", power |-> "0.1", delta |-> None, seconds |-> None,
         validate |-> TRUE, lower |-> 0, upper |-> 0,
         outcome |-> "ok", calls_before |-> 0]

\* client.call_stub_method around one stub call: the call is counted and its
\* request kept; a gRPC error of the stub comes out as an ApiClientError.
CallStub(request) ==
    /\ call_count' = call_count + 1
    /\ call_args' = Some(request)

StubResult(answer) == IF answer = "ok" THEN "ok" ELSE "ApiClientError"

\* The body shared by set_component_power_active and _reactive, which differ
\* in the stub method only.
SetComponentPower(op, method, component, power, request_lifetime, validate_arguments, answer) ==
    LET lifetime_seconds == _delta_to_seconds(request_lifetime)
        checked == IF validate_arguments
                   THEN _validate_set_power_args(power, lifetime_seconds)
                   ELSE "ok"
    IN  IF checked # "ok"
        THEN /\ last_op' = OpRecord(op, power, request_lifetime, lifetime_seconds,
                                    validate_arguments, 0, 0, checked)
             /\ UNCHANGED <<call_count, call_args>>
        ELSE /\ CallStub([method |-> method,
                          component_id |-> _get_component_id(component),
                          power |-> power,
                          request_lifetime |-> lifetime_seconds,
                          lower |-> 0, upper |-> 0])
             /\ last_op' = OpRecord(op, power, request_lifetime, lifetime_seconds,
                                    validate_arguments, 0, 0, StubResult(answer))

set_component_power_active ==
    /\ call_count < MaxCalls
    /\ UNCHANGED <<decodeVars, errorVars, streamVars>>
    /\ \E component \in ComponentArgs, power \in PowerValues,
          request_lifetime \in LifetimeValues, validate_arguments \in BOOLEAN,
          answer \in StubOutcomes :
            SetComponentPower("set_component_power_active", "SetComponentPowerActive",
                              component, power, request_lifetime,
                              validate_arguments, answer)

set_component_power_reactive ==
    /\ call_count < MaxCalls
    /\ UNCHANGED <<decodeVars, errorVars, streamVars>>
    /\ \E component \in ComponentArgs, power \in PowerValues,
          request_lifetime \in LifetimeValues, validate_arguments \in BOOLEAN,
          answer \in StubOutcomes :
            SetComponentPower("set_component_power_reactive", "SetComponentPowerReactive",
                              component, power, request_lifetime,
                              validate_arguments, answer)

\* ------------------------------------------------------------------------
\* set_bounds (the wrapper tests/test_client.py:610-678 exercises)
\* ------------------------------------------------------------------------

BoundValues == {-10, 0, 2, 10}

\* The check of set_bounds with the test of the lower bound left out.
ValidateSetBoundsUpperOnly(lower, upper) ==
    IF upper < 0 THEN "ValueError" ELSE "ok"

\* The local check of set_bounds: the bounds have to straddle zero.
_validate_set_bounds_args(lower, upper) ==
    IF upper < 0 THEN "ValueError"
    ELSE IF lower > 0 THEN "ValueError"
    ELSE "ok"

set_bounds ==
    /\ call_count < MaxCalls
    /\ UNCHANGED <<decodeVars, errorVars, streamVars>>
    /\ \E component_id \in {99}, lower \in BoundValues, upper \in BoundValues,
          answer \in StubOutcomes :
        LET checked == _validate_set_bounds_args(lower, upper)
        IN  IF checked # "ok"
            THEN /\ last_op' = OpRecord("set_bounds", "0.1", None, None, TRUE,
                                        lower, upper, checked)
                 /\ UNCHANGED <<call_count, call_args>>
            ELSE /\ CallStub([method |-> "AddInclusionBounds",
                              component_id |-> component_id,
                              power |-> "0.1", request_lifetime |-> None,
                              lower |-> lower, upper |-> upper])
                 /\ last_op' = OpRecord("set_bounds", "0.1", None, None, TRUE,
                                        lower, upper, StubResult(answer))

\* ------------------------------------------------------------------------
\* Enums and the helpers of the decoder
\* ------------------------------------------------------------------------

\* ComponentCategory: the values of the members and their lower-case names
\* (category.name.lower()).
ComponentCategory == {0, 1, 2, 3, 4, 5, 6, 8, 9, 10, 11, 12, 13, 14, 15}

CategoryNameLower(v) ==
    CASE v = 0 -> "unspecified"
      [] v = 1 -> "grid"
      [] v = 2 -> "meter"
      [] v = 3 -> "inverter"
      [] v = 4 -> "converter"
      [] v = 5 -> "battery"
      [] v = 6 -> "ev_charger"
      [] v = 8 -> "crypto_miner"
      [] v = 9 -> "electrolyzer"
      [] v = 10 -> "chp"
      [] v = 11 -> "relay"
      [] v = 12 -> "precharger"
      [] v = 13 -> "fuse"
      [] v = 14 -> "voltage_transformer"
      [] v = 15 -> "hvac"

\* ComponentStatus: UNSPECIFIED, ACTIVE, INACTIVE.
ComponentStatus == {0, 1, 2}

\* BatteryType: UNSPECIFIED, LI_ION, NA_ION.
BatteryType == {0, 1, 2}

\* EvChargerType: UNSPECIFIED, AC, DC, HYBRID.
EvChargerType == {0, 1, 2, 3}

\* InverterType: UNSPECIFIED, BATTERY, SOLAR, HYBRID.
InverterType == {0, 1, 2, 3}

\* Metric: the members the model's messages use (UNSPECIFIED, DC_VOLTAGE,
\* DC_CURRENT) stand for the whole enum.
Metric == {0, 1, 2}

\* A decoded enum field is the member with that value, or the raw integer.
Member(v) == [kind |-> "enum", value |-> v]
RawInt(v) == [kind |-> "int", value |-> v]

\* enum_from_proto: the member of enum_type with this value; an integer the
\* enum does not know comes back as that integer.
enum_from_proto(value, enum_type) ==
    IF value \in enum_type THEN Member(value) ELSE RawInt(value)

\* Lifetime.__post_init__: the ValueError of a start after the end.
Lifetime_post_init(start, end) ==
    IF start # None /\ end # None /\ start[1] > end[1] THEN "ValueError" ELSE "none"

\* Lifetime(): the unbounded lifetime.
UnboundedLifetime == [start |-> None, end |-> None]

\* lifetime_from_proto: Lifetime(start=..., end=...) of the timestamps set.
lifetime_from_proto(msg) ==
    [raised |-> Lifetime_post_init(msg.start, msg.end),
     value |-> [start |-> msg.start, end |-> msg.end]]

\* bounds_from_proto: Bounds(lower=..., upper=...), which raises ValueError
\* when the lower bound is above the upper bound.
bounds_from_proto(msg) ==
    [raised |-> IF msg.lower # None /\ msg.upper # None /\ msg.lower[1] > msg.upper[1]
                THEN "ValueError" ELSE "none",
     value |-> [lower |-> msg.lower, upper |-> msg.upper]]

\* Appending to an issue list.
Issue(list, cond, text) == IF cond THEN Append(list, text) ELSE list

\* _get_operational_lifetime_from_proto without its try/except: the
\* ValueError of an invalid lifetime reaches the caller.
OperationalLifetimeUnguarded(message, major_issues, minor_issues) ==
    IF message.operational_lifetime # None
    THEN LET r == lifetime_from_proto(message.operational_lifetime[1])
         IN  [raised |-> r.raised, value |-> r.value,
              major |-> major_issues, minor |-> minor_issues]
    ELSE [raised |-> "none", value |-> UnboundedLifetime,
          major |-> major_issues,
          minor |-> Append(minor_issues, "missing operational lifetime")]

\* _get_operational_lifetime_from_proto (component): the lifetime of the
\* message, or the unbounded one with an issue when missing or invalid.
_get_operational_lifetime_from_proto(message, major_issues, minor_issues) ==
    IF message.operational_lifetime # None
    THEN LET r == lifetime_from_proto(message.operational_lifetime[1])
         IN  IF r.raised = "none"
             THEN [raised |-> "none", value |-> r.value,
                   major |-> major_issues, minor |-> minor_issues]
             ELSE [raised |-> "none", value |-> UnboundedLifetime,
                   major |-> Append(major_issues, "invalid operational lifetime"),
                   minor |-> minor_issues]
    ELSE [raised |-> "none", value |-> UnboundedLifetime,
          major |-> major_issues,
          minor |-> Append(minor_issues, "missing operational lifetime")]

\* A dict that keeps its latest entry only.
DictSetOnly(d, k, v) == [x \in {k} |-> v]

\* bounds[metric] = bound on a dict.
DictSet(d, k, v) == [x \in DOMAIN d \cup {k} |-> IF x = k THEN v ELSE d[x]]

EmptyDict == [x \in {} |-> 0]

\* One turn of the loop of _metric_config_bounds_from_proto.
MetricConfigBound(acc, metric_bound) ==
    LET metric == enum_from_proto(metric_bound.metric, Metric)
        major1 == Issue(acc.major, metric = Member(0),
                        "metric_config_bounds has an UNSPECIFIED metric")
        minor1 == Issue(acc.minor, metric.kind = "int",
                        "metric_config_bounds has an unrecognized metric")
    IN  IF acc.raised # "none" THEN acc
        ELSE IF metric_bound.config_bounds = None
        THEN [acc EXCEPT !.major = Append(major1, "metric_config_bounds missing config_bounds"),
                         !.minor = minor1]
        ELSE LET b == bounds_from_proto(metric_bound.config_bounds[1])
             IN  IF b.raised # "none"
                 THEN [acc EXCEPT !.major = Append(major1, "metric_config_bounds is invalid"),
                                  !.minor = minor1]
                 ELSE [acc EXCEPT !.major = Issue(major1, metric \in DOMAIN acc.value,
                                                  "metric_config_bounds is duplicated"),
                                  !.minor = minor1,
                                  !.value = DictSet(acc.value, metric, b.value)]

RECURSIVE MetricConfigBoundsLoop(_, _)
MetricConfigBoundsLoop(acc, message) ==
    IF message = <<>> THEN acc
    ELSE MetricConfigBoundsLoop(MetricConfigBound(acc, Head(message)), Tail(message))

\* _metric_config_bounds_from_proto: the dict of metric to bounds.
_metric_config_bounds_from_proto(message, major_issues, minor_issues) ==
    MetricConfigBoundsLoop([raised |-> "none", value |-> EmptyDict,
                            major |-> major_issues, minor |-> minor_issues],
                           message)

\* A check that leaves the UNSPECIFIED category to the branches after it.
CategoryMatchesSpecifiedOnly(metadata_category, category) ==
    LET cat_name == CategoryNameLower(category.value)
        fixed_category == IF cat_name = "grid_connection_point" THEN "grid" ELSE cat_name
    IN  category # Member(0) /\ fixed_category # metadata_category

\* _category_matches with the comparison the other way round (==).
CategoryMatchesEqual(metadata_category, category) ==
    LET cat_name == CategoryNameLower(category.value)
        fixed_category == IF cat_name = "grid_connection_point" THEN "grid" ELSE cat_name
    IN  fixed_category = metadata_category

\* _category_matches: compares the name of the metadata set with the name the
\* declared category gives.
_category_matches(metadata_category, category) ==
    LET cat_name == CategoryNameLower(category.value)
        fixed_category == IF cat_name = "grid_connection_point" THEN "grid" ELSE cat_name
    IN  fixed_category # metadata_category

\* The field of the category-specific sub-message `which` of a message: the
\* one set in the oneof, or the default (0) of a sub-message that is not set.
MetadataField(message, which) ==
    IF message.metadata.which = which THEN message.metadata.value ELSE 0

\* The field of each metadata sub-message the decoder reads.
MetadataFieldName(which) ==
    CASE which \in {"battery", "ev_charger", "inverter"} -> "type"
      [] which = "fuse" -> "ratedCurrent"
      [] which = "grid" -> "ratedFuseCurrent"
      [] which = "voltage_transformer" -> "primary"

\* MessageToDict of the metadata sub-message that is set: a dict from the
\* names of its fields to their values.
MessageToDict(message) ==
    [k \in {MetadataFieldName(message.metadata.which)} |-> message.metadata.value]

NoMetadata == [which |-> "", value |-> 0]

\* A component instance: its class, the fields every component has, and the
\* field its class adds (type, rated_current, rated_fuse_current, voltage).
NewComponent(cls, message, status, category, lifetime, rated_bounds, metadata, extra) ==
    [cls |-> cls,
     id |-> message.id,
     microgrid_id |-> message.microgrid_id,
     name |-> message.name,
     manufacturer |-> message.manufacturer,
     model_name |-> message.model_name,
     status |-> status,
     category |-> category,
     operational_lifetime |-> lifetime,
     rated_bounds |-> rated_bounds,
     category_specific_metadata |-> metadata,
     extra |-> extra]

\* _battery_from_proto: the battery class of the type, UnrecognizedBattery
\* keeping the integer of a type the client does not know.
_battery_from_proto(message, status, lifetime, rated_bounds) ==
    LET battery_type == enum_from_proto(MetadataField(message, "battery"), BatteryType)
        cls == CASE battery_type = Member(0) -> "UnspecifiedBattery"
                 [] battery_type = Member(1) -> "LiIonBattery"
                 [] battery_type = Member(2) -> "NaIonBattery"
                 [] OTHER -> "UnrecognizedBattery"
    IN  NewComponent(cls, message, status, Member(5), lifetime, rated_bounds, EmptyDict,
                     IF battery_type.kind = "int" THEN Some(battery_type.value) ELSE None)

\* _ev_charger_from_proto
_ev_charger_from_proto(message, status, lifetime, rated_bounds) ==
    LET ev_charger_type == enum_from_proto(MetadataField(message, "ev_charger"),
                                           EvChargerType)
        cls == CASE ev_charger_type = Member(0) -> "UnspecifiedEvCharger"
                 [] ev_charger_type = Member(1) -> "AcEvCharger"
                 [] ev_charger_type = Member(2) -> "DcEvCharger"
                 [] ev_charger_type = Member(3) -> "HybridEvCharger"
                 [] OTHER -> "UnrecognizedEvCharger"
    IN  NewComponent(cls, message, status, Member(6), lifetime, rated_bounds, EmptyDict,
                     IF ev_charger_type.kind = "int"
                     THEN Some(ev_charger_type.value) ELSE None)

\* _inverter_from_proto
_inverter_from_proto(message, status, lifetime, rated_bounds) ==
    LET inverter_type == enum_from_proto(MetadataField(message, "inverter"), InverterType)
        cls == CASE inverter_type = Member(0) -> "UnspecifiedInverter"
                 [] inverter_type = Member(1) -> "BatteryInverter"
                 [] inverter_type = Member(2) -> "SolarInverter"
                 [] inverter_type = Member(3) -> "HybridInverter"
                 [] OTHER -> "UnrecognizedInverter"
    IN  NewComponent(cls, message, status, Member(3), lifetime, rated_bounds, EmptyDict,
                     IF inverter_type.kind = "int" THEN Some(inverter_type.value) ELSE None)

\* _fuse_from_proto, _grid_connection_point_from_proto and
\* _voltage_transformer_from_proto: the class with the rating of the message.
_fuse_from_proto(message, status, lifetime, rated_bounds) ==
    NewComponent("Fuse", message, status, Member(13), lifetime, rated_bounds, EmptyDict,
                 Some(MetadataField(message, "fuse")))

_grid_connection_point_from_proto(message, status, lifetime, rated_bounds) ==
    NewComponent("GridConnectionPoint", message, status, Member(1), lifetime,
                 rated_bounds, EmptyDict, Some(MetadataField(message, "grid")))

_voltage_transformer_from_proto(message, status, lifetime, rated_bounds) ==
    NewComponent("VoltageTransformer", message, status, Member(14), lifetime,
                 rated_bounds, EmptyDict,
                 Some(MetadataField(message, "voltage_transformer")))

\* The classes of the categories that carry no metadata of their own.
SimpleClass(v) ==
    CASE v = 10 -> "Chp"
      [] v = 4 -> "Converter"
      [] v = 8 -> "CryptoMiner"
      [] v = 9 -> "Electrolyzer"
      [] v = 15 -> "Hvac"
      [] v = 2 -> "Meter"
      [] v = 12 -> "Precharger"
      [] v = 11 -> "Relay"

\* The match statement of _component_from_proto_with_issues.
MatchCategory(message, status, category, lifetime, rated_bounds, major_issues) ==
    CASE category = Member(0) ->
            [major |-> Append(major_issues, "category_type is unspecified"),
             value |-> NewComponent("UnspecifiedComponent", message, status, Member(0),
                                    lifetime, rated_bounds, EmptyDict, None)]
      [] category.kind = "int" ->
            [major |-> Append(major_issues, "category_type is unrecognized"),
             value |-> NewComponent("UnrecognizedComponent", message, status, category,
                                    lifetime, rated_bounds, EmptyDict, None)]
      [] category = Member(5) ->
            [major |-> major_issues,
             value |-> _battery_from_proto(message, status, lifetime, rated_bounds)]
      [] category = Member(6) ->
            [major |-> major_issues,
             value |-> _ev_charger_from_proto(message, status, lifetime, rated_bounds)]
      [] category = Member(13) ->
            [major |-> major_issues,
             value |-> _fuse_from_proto(message, status, lifetime, rated_bounds)]
      [] category = Member(1) ->
            [major |-> major_issues,
             value |-> _grid_connection_point_from_proto(message, status, lifetime,
                                                         rated_bounds)]
      [] category = Member(3) ->
            [major |-> major_issues,
             value |-> _inverter_from_proto(message, status, lifetime, rated_bounds)]
      [] category = Member(14) ->
            [major |-> major_issues,
             value |-> _voltage_transformer_from_proto(message, status, lifetime,
                                                       rated_bounds)]
      [] OTHER ->
            [major |-> major_issues,
             value |-> NewComponent(SimpleClass(category.value), message, status, category,
                                    lifetime, rated_bounds, EmptyDict, None)]

\* A decode that ended in an exception: no component comes back.
Raised(exc, major_issues, minor_issues) ==
    [raised |-> exc, value |-> None, major |-> major_issues, minor |-> minor_issues]

\* _component_from_proto_with_issues: the component of a message and the
\* issues found on the way.
_component_from_proto_with_issues(message, major_issues, minor_issues) ==
    LET minor1 == Issue(minor_issues, message.name = "", "name is empty")
        minor2 == Issue(minor1, message.manufacturer = "", "manufacturer is empty")
        minor3 == Issue(minor2, message.model_name = "", "model_name is empty")
        status == enum_from_proto(message.status, ComponentStatus)
        major1 == IF status = Member(0)
                  THEN Append(major_issues, "status is unspecified")
                  ELSE Issue(major_issues, status.kind = "int", "status is unrecognized")
        category == enum_from_proto(message.category, ComponentCategory)
        major2 == IF category = Member(0)
                  THEN Append(major1, "category is unspecified")
                  ELSE Issue(major1, category.kind = "int", "category is unrecognized")
        lifetime == _get_operational_lifetime_from_proto(message, major2, minor3)
        rated_bounds == _metric_config_bounds_from_proto(message.metric_config_bounds,
                                                         lifetime.major, lifetime.minor)
        metadata_category == message.metadata.which
    IN  IF lifetime.raised # "none"
        THEN Raised(lifetime.raised, lifetime.major, lifetime.minor)
        ELSE IF rated_bounds.raised # "none"
        THEN Raised(rated_bounds.raised, rated_bounds.major, rated_bounds.minor)
        ELSE IF /\ metadata_category # ""
                /\ category.kind = "enum"
                /\ _category_matches(metadata_category, category)
        THEN [raised |-> "none",
              value |-> Some(NewComponent("MismatchedCategoryComponent", message, status,
                                          category, lifetime.value, rated_bounds.value,
                                          MessageToDict(message), None)),
              major |-> Append(rated_bounds.major,
                               "category_type.metadata does not match the category_type"),
              minor |-> rated_bounds.minor]
        ELSE LET m == MatchCategory(message, status, category, lifetime.value,
                                    rated_bounds.value, rated_bounds.major)
             IN  [raised |-> "none", value |-> Some(m.value),
                  major |-> m.major, minor |-> rated_bounds.minor]

\* A component_from_proto that logs every issue at one severity.
ComponentFromProtoOneSeverity(message) ==
    LET r == _component_from_proto_with_issues(message, <<>>, <<>>)
    IN  IF r.raised # "none"
        THEN [raised |-> r.raised, value |-> None, log |-> <<>>,
              major |-> r.major, minor |-> r.minor]
        ELSE [raised |-> "none", value |-> r.value,
              log |-> Issue(<<>>, r.major # <<>> \/ r.minor # <<>>, "warning"),
              major |-> r.major, minor |-> r.minor]

\* component_from_proto: decodes, then logs one warning when there are major
\* issues and one debug message when there are minor ones.
component_from_proto(message) ==
    LET r == _component_from_proto_with_issues(message, <<>>, <<>>)
        log1 == Issue(<<>>, r.major # <<>>, "warning")
        log2 == Issue(log1, r.minor # <<>>, "debug")
    IN  IF r.raised # "none"
        THEN [raised |-> r.raised, value |-> None, log |-> <<>>,
              major |-> r.major, minor |-> r.minor]
        ELSE [raised |-> "none", value |-> r.value, log |-> log2,
              major |-> r.major, minor |-> r.minor]

\* ------------------------------------------------------------------------
\* The Component messages the decoder is given
\* ------------------------------------------------------------------------

\* Categories on the wire: every known one, 7 (SENSOR on the wire, no member
\* of ComponentCategory) and 99 (no category at all).
WireCategories == ComponentCategory \cup {7, 99}

\* Statuses on the wire: UNSPECIFIED, ACTIVE and an unknown one.
WireStatuses == {0, 1, 9}

\* The metadata oneof: not set, or one sub-message with its field (for a
\* battery, EV charger or inverter its type: a known one or an unknown one).
WireMetadata ==
    {NoMetadata}
    \cup [which : {"battery", "ev_charger", "inverter"}, value : {1, 9}]
    \cup [which : {"fuse", "grid", "voltage_transformer"}, value : {63}]

\* operational_lifetime: absent, valid, or with start after end.
WireLifetimes ==
    {None,
     Some([start |-> Some(1), end |-> Some(2)]),
     Some([start |-> Some(2), end |-> Some(1)])}

\* One entry of metric_config_bounds: a metric (UNSPECIFIED 0, known 1,
\* unknown 999) with config_bounds missing, valid or with lower above upper.
WireBoundsEntries ==
    {[metric |-> 1, config_bounds |-> Some([lower |-> Some(1), upper |-> Some(2)])],
     [metric |-> 1, config_bounds |-> Some([lower |-> Some(0), upper |-> None])],
     [metric |-> 0, config_bounds |-> Some([lower |-> Some(2), upper |-> Some(1)])],
     [metric |-> 999, config_bounds |-> None]}

WireBoundsLists == UNION {[1..n -> WireBoundsEntries] : n \in 0..MaxBounds}

\* name, manufacturer and model_name: all empty, all set, one empty.
WireNames == {<<"", "", "">>, <<"bat", "acme", "m1">>, <<"bat", "", "m1">>}

ComponentMessages ==
    {[id |-> 38,
      microgrid_id |-> 1,
      name |-> n[1],
      manufacturer |-> n[2],
      model_name |-> n[3],
      status |-> r.status,
      category |-> r.category,
      metadata |-> r.metadata,
      operational_lifetime |-> r.operational_lifetime,
      metric_config_bounds |-> r.metric_config_bounds] :
        n \in WireNames,
        r \in [status : WireStatuses,
               category : WireCategories,
               metadata : WireMetadata,
               operational_lifetime : WireLifetimes,
               metric_config_bounds : WireBoundsLists]}

PlainMessage ==
    [id |-> 38, microgrid_id |-> 1, name |-> "bat", manufacturer |-> "acme",
     model_name |-> "m1", status |-> 1, category |-> 5, metadata |-> NoMetadata,
     operational_lifetime |-> None, metric_config_bounds |-> <<>>]

\* A caller decodes the message it holds.
DecodeComponent ==
    /\ decoded = None
    /\ decoded' = Some(component_from_proto(wire_message))
    /\ UNCHANGED <<wire_message, powerVars, errorVars, streamVars>>

\* ------------------------------------------------------------------------
\* ClientError.from_grpc_error
\* ------------------------------------------------------------------------

\* grpclib.Status without OK: the statuses status_map has a class for.
StatusMapKeys ==
    {"CANCELLED", "UNKNOWN", "INVALID_ARGUMENT", "DEADLINE_EXCEEDED", "NOT_FOUND",
     "ALREADY_EXISTS", "PERMISSION_DENIED", "RESOURCE_EXHAUSTED",
     "FAILED_PRECONDITION", "ABORTED", "OUT_OF_RANGE", "UNIMPLEMENTED", "INTERNAL",
     "UNAVAILABLE", "DATA_LOSS", "UNAUTHENTICATED"}

\* status_map with DATA_LOSS given the class of INTERNAL.
StatusMapSharedClass(status) ==
    CASE status = "CANCELLED" -> "OperationCancelled"
      [] status = "UNKNOWN" -> "UnknownError"
      [] status = "INVALID_ARGUMENT" -> "InvalidArgument"
      [] status = "DEADLINE_EXCEEDED" -> "OperationTimedOut"
      [] status = "NOT_FOUND" -> "EntityNotFound"
      [] status = "ALREADY_EXISTS" -> "EntityAlreadyExists"
      [] status = "PERMISSION_DENIED" -> "PermissionDenied"
      [] status = "RESOURCE_EXHAUSTED" -> "ResourceExhausted"
      [] status = "FAILED_PRECONDITION" -> "OperationPreconditionFailed"
      [] status = "ABORTED" -> "OperationAborted"
      [] status = "OUT_OF_RANGE" -> "OperationOutOfRange"
      [] status = "UNIMPLEMENTED" -> "OperationNotImplemented"
      [] status = "INTERNAL" -> "InternalError"
      [] status = "UNAVAILABLE" -> "ServiceUnavailable"
      [] status = "DATA_LOSS" -> "InternalError"
      [] status = "UNAUTHENTICATED" -> "OperationUnauthenticated"

\* status_map of from_grpc_error.
status_map(status) ==
    CASE status = "CANCELLED" -> "OperationCancelled"
      [] status = "UNKNOWN" -> "UnknownError"
      [] status = "INVALID_ARGUMENT" -> "InvalidArgument"
      [] status = "DEADLINE_EXCEEDED" -> "OperationTimedOut"
      [] status = "NOT_FOUND" -> "EntityNotFound"
      [] status = "ALREADY_EXISTS" -> "EntityAlreadyExists"
      [] status = "PERMISSION_DENIED" -> "PermissionDenied"
      [] status = "RESOURCE_EXHAUSTED" -> "ResourceExhausted"
      [] status = "FAILED_PRECONDITION" -> "OperationPreconditionFailed"
      [] status = "ABORTED" -> "OperationAborted"
      [] status = "OUT_OF_RANGE" -> "OperationOutOfRange"
      [] status = "UNIMPLEMENTED" -> "OperationNotImplemented"
      [] status = "INTERNAL" -> "InternalError"
      [] status = "UNAVAILABLE" -> "ServiceUnavailable"
      [] status = "DATA_LOSS" -> "DataLoss"
      [] status = "UNAUTHENTICATED" -> "OperationUnauthenticated"

\* The description each subclass of GrpcStatusError passes to its base.
SubclassDescription(cls) ==
    CASE cls = "OperationCancelled" -> "The operation was cancelled"
      [] cls = "UnknownError" -> "There was an error that can't be described"
      [] cls = "InvalidArgument" -> "The client specified an invalid argument"
      [] cls = "OperationTimedOut" -> "The time limit was exceeded"
      [] cls = "EntityNotFound" -> "The requested entity was not found"
      [] cls = "EntityAlreadyExists" -> "The entity already exists"
      [] cls = "PermissionDenied" -> "The caller does not have permission"
      [] cls = "ResourceExhausted" -> "Some resource has been exhausted"
      [] cls = "OperationPreconditionFailed" -> "The system is not in a required state"
      [] cls = "OperationAborted" -> "The operation was aborted"
      [] cls = "OperationOutOfRange" -> "The operation was attempted past the valid range"
      [] cls = "OperationNotImplemented" -> "The operation is not implemented"
      [] cls = "InternalError" -> "Some invariants have been broken"
      [] cls = "ServiceUnavailable" -> "The service is currently unavailable"
      [] cls = "DataLoss" -> "Unrecoverable data loss or corruption"
      [] cls = "OperationUnauthenticated" -> "No valid authentication credentials"

\* GrpcStatusError.__init__ (through ClientError.__init__): the fields an
\* instance of class cls ends up with.
GrpcStatusError(cls, server_url, operation, description, grpc_error) ==
    [cls |-> cls,
     server_url |-> server_url,
     operation |-> operation,
     description |-> description,
     grpc_error |-> grpc_error]

\* ClientError.from_grpc_error
from_grpc_error(server_url, operation, grpc_error) ==
    IF grpc_error.status \in StatusMapKeys
    THEN LET ctor == status_map(grpc_error.status)
         IN  GrpcStatusError(ctor, server_url, operation, SubclassDescription(ctor),
                             grpc_error)
    ELSE GrpcStatusError("GrpcStatusError", server_url, operation,
                         "Got an unrecognized status code", grpc_error)

\* The failed calls: any status of grpclib.Status, with or without a message.
GrpcErrors ==
    [status : StatusMapKeys \cup {"OK"},
     message : {None, Some("fake grpc details")},
     details : {None}]

GrpcFailures ==
    [server_url : {"grpc://mock_host:1234", "grpc://[::1]:62060"},
     operation : {"ListComponents", "ListConnections", "SetComponentPowerActive"},
     grpc_error : GrpcErrors]

PlainFailure ==
    [server_url |-> "grpc://mock_host:1234", operation |-> "ListComponents",
     grpc_error |-> [status |-> "UNKNOWN", message |-> None, details |-> None]]

\* A failed call is turned into the client's error.
ConvertGrpcError ==
    /\ client_error = None
    /\ client_error' = Some(from_grpc_error(grpc_failure.server_url,
                                            grpc_failure.operation,
                                            grpc_failure.grpc_error))
    /\ UNCHANGED <<grpc_failure, powerVars, decodeVars, streamVars>>

\* ------------------------------------------------------------------------
\* receive_component_data_samples_stream and its broadcasters
\* ------------------------------------------------------------------------

\* Stream requests a run makes at most.
MaxSubscriptions == 2

\* Messages the server sends in a run at most.
MaxMessages == 2

\* Upstream calls that fail or end in a run at most.
MaxFailures == 3

\* The components streams are asked for, as a ComponentId or a Component.
StreamComponentArgs ==
    { [kind |-> "ComponentId", id |-> 83], [kind |-> "Component", id |-> 83] }

\* The metrics arguments: Metric members and their int values, in some order,
\* with duplicates, and no metric at all.
MetricArgs ==
    { <<>>, <<Member(1)>>, <<RawInt(1), Member(1)>>,
      <<Member(1), Member(2)>>, <<RawInt(2), Member(1)>> }

BufferSizes == {1, 2}

\* _get_metric_value: the int value of a Metric or of an int.
_get_metric_value(metric) ==
    IF metric.kind = "enum" THEN metric.value
    ELSE metric.value

\* frozenset([_get_metric_value(m) for m in metrics])
MetricsSet(metrics) ==
    {_get_metric_value(metrics[n]) : n \in 1..Len(metrics)}

MetricSets == SUBSET {1, 2}

\* hash() on the frozensets: a function of the set, the same for the whole
\* process, which may or may not tell two sets apart.
InjectiveHash ==
    [ms \in MetricSets |-> IF ms = {} THEN 0 ELSE IF ms = {1} THEN 11
                           ELSE IF ms = {2} THEN 12 ELSE 13]

CollidingHash ==
    [ms \in MetricSets |-> IF ms = {} THEN 0 ELSE IF ms = {2} THEN 12 ELSE 11]

HashFunctions == {InjectiveHash, CollidingHash}

RetryLimits == {None, Some(1)}

\* key = f"{component_id}-{hash(metrics_set)}"
StreamKey(component_id, metrics_set) == <<component_id, hash_of[metrics_set]>>

\* A registry that never finds anything.
RegistryGetNothing(key) == None

\* self._component_data_samples_broadcasters.get(key)
RegistryGet(key) ==
    IF key \in DOMAIN broadcasters THEN Some(broadcasters[key]) ELSE None

\* GrpcStreamBroadcaster(stream_name, stream_method, transform, retry_strategy):
\* a broadcaster for the request of this component and these metrics whose
\* pump is about to open the upstream call, with no receiver yet.
GrpcStreamBroadcaster(component_id, metrics_set, transform) ==
    [component_id |-> component_id,
     metrics |-> metrics_set,
     transform |-> transform,
     pc |-> "opening",
     retries |-> 0,
     opens |-> 0,
     upstream |-> <<>>,
     closed |-> FALSE,
     receivers |-> <<>>]

\* broadcaster.new_receiver(maxsize=buffer_size): one more receiver with an
\* empty buffer of its own, which gets what is sent from now on.
new_receiver(broadcaster, maxsize, requested) ==
    [broadcaster EXCEPT !.receivers =
        Append(@, [maxsize |-> maxsize,
                   buffer |-> <<>>,
                   got |-> <<>>,
                   dropped |-> 0,
                   since |-> Len(broadcaster.upstream),
                   requested |-> requested,
                   status |-> "open"])]

NoSub == [method |-> "none", component |-> [kind |-> "ComponentId", id |-> 0],
          metrics |-> <<>>, buffer_size |-> 0, created |-> FALSE, index |-> 0,
          outcome |-> "ok"]

\* The body of receive_component_data_samples_stream from the lookup on:
\* with found what the registry gave for the key, a broadcaster is
\* constructed and stored when nothing was found, and a new receiver of the
\* broadcaster is returned.
StreamRequest(component, metrics, buffer_size, found) ==
    LET component_id == _get_component_id(component)
        metrics_set == MetricsSet(metrics)
        key == StreamKey(component_id, metrics_set)
        created == found = None
        index == IF created THEN Len(pumps) + 1 ELSE found[1]
        constructed == IF created
                       THEN Append(pumps, GrpcStreamBroadcaster(
                                              _get_component_id(component),
                                              metrics_set,
                                              "component_data_sample_from_proto"))
                       ELSE pumps
    IN  /\ pumps' = [constructed EXCEPT
                        ![index] = new_receiver(@, buffer_size, component_id)]
        /\ broadcasters' = IF created THEN DictSet(broadcasters, key, index)
                           ELSE broadcasters
        /\ last_sub' = [method |-> "receive_component_data_samples_stream",
                        component |-> component, metrics |-> metrics,
                        buffer_size |-> buffer_size, created |-> created,
                        index |-> index, outcome |-> "ok"]
        /\ sub_count' = sub_count + 1

receive_component_data_samples_stream ==
    /\ sub_count < MaxSubscriptions
    /\ UNCHANGED <<powerVars, decodeVars, errorVars, client_closed, callers, hash_of, retry_limit>>
    /\ \E component \in StreamComponentArgs, metrics \in MetricArgs,
          buffer_size \in BufferSizes :
        StreamRequest(component, metrics, buffer_size,
                      RegistryGet(StreamKey(_get_component_id(component),
                                            MetricsSet(metrics))))

\* ------------------------------------------------------------------------
\* The pump of a broadcaster and its receivers
\* ------------------------------------------------------------------------

MinOf(set) == CHOOSE m \in set : \A other \in set : m <= other

ValidBounds == [lower |-> Some(1), upper |-> Some(2)]
InvalidBounds == [lower |-> Some(2), upper |-> Some(1)]

\* The ComponentData message the server sends next on the stream of this
\* broadcaster: one metric sample of a metric of the filter, for the
\* component of the request; no metric sample when the filter names no
\* metric.
ComponentDataMessage(broadcaster, bounds) ==
    [component_id |-> broadcaster.component_id,
     metric_samples |-> IF broadcaster.metrics = {}
                        THEN <<>>
                        ELSE << [sampled_at |-> Len(broadcaster.upstream) + 1,
                                 metric |-> MinOf(broadcaster.metrics),
                                 bounds |-> <<bounds>>] >>,
     states |-> <<>>]

\* ComponentStateCode and ComponentErrorCode: the values of their members.
ComponentStateCode ==
    (0..10) \cup (20..24) \cup {30, 31} \cup (40..42)

ComponentErrorCode ==
    (0..22) \cup (40..44) \cup (50..54) \cup {56, 60}

\* A state sample decoder that turns what it does not know into UNKNOWN.
StateSampleCoerceUnknown(message) ==
    LET known(value, enum_type) == IF value \in enum_type THEN Member(value)
                                   ELSE Member(1)
    IN  [sampled_at |-> message.sampled_at,
         states |-> {known(message.states[n], ComponentStateCode) :
                        n \in 1..Len(message.states)},
         warnings |-> {known(message.warnings[n], ComponentErrorCode) :
                        n \in 1..Len(message.warnings)},
         errors |-> {known(message.errors[n], ComponentErrorCode) :
                        n \in 1..Len(message.errors)}]

\* component_state_sample_from_proto: the frozensets of the codes of the
\* message, each the member of its enum or the integer itself.
component_state_sample_from_proto(message) ==
    [sampled_at |-> message.sampled_at,
     states |-> {enum_from_proto(message.states[n], ComponentStateCode) :
                    n \in 1..Len(message.states)},
     warnings |-> {enum_from_proto(message.warnings[n], ComponentErrorCode) :
                    n \in 1..Len(message.warnings)},
     errors |-> {enum_from_proto(message.errors[n], ComponentErrorCode) :
                    n \in 1..Len(message.errors)}]

\* metric_sample_from_proto: the bounds are converted with no guard, so the
\* ValueError of invalid bounds is the ValueError of the whole conversion.
metric_sample_from_proto(message) ==
    LET converted == [n \in 1..Len(message.bounds) |->
                        bounds_from_proto(message.bounds[n])]
    IN  [raised |-> IF \E n \in 1..Len(converted) : converted[n].raised # "none"
                    THEN "ValueError" ELSE "none",
         value |-> [sampled_at |-> message.sampled_at,
                    metric |-> enum_from_proto(message.metric, Metric),
                    bounds |-> [n \in 1..Len(converted) |-> converted[n].value]]]

\* component_data_sample_from_proto
component_data_sample_from_proto(message) ==
    LET converted == [n \in 1..Len(message.metric_samples) |->
                        metric_sample_from_proto(message.metric_samples[n])]
    IN  [raised |-> IF \E n \in 1..Len(converted) : converted[n].raised # "none"
                    THEN "ValueError" ELSE "none",
         value |-> [component_id |-> message.component_id,
                    metrics |-> [n \in 1..Len(converted) |-> converted[n].value],
                    states |-> [n \in 1..Len(message.states) |->
                                  component_state_sample_from_proto(message.states[n])]]]

\* The ComponentData message the server sends next on the stream of a typed
\* data method: it names the component of the request.
TypedDataMessage(broadcaster) ==
    [id |-> broadcaster.component_id, ts |-> Len(broadcaster.upstream) + 1]

\* MeterData.from_proto, BatteryData.from_proto: the data class with the id
\* and the timestamp of the message.
ComponentData_from_proto(cls, raw) ==
    [raised |-> "none",
     value |-> [cls |-> cls, component_id |-> raw.id, timestamp |-> raw.ts]]

\* The messages the server can send next to this broadcaster.
ServerMessages(broadcaster) ==
    IF broadcaster.transform = "component_data_sample_from_proto"
    THEN {ComponentDataMessage(broadcaster, bounds) :
            bounds \in {ValidBounds, InvalidBounds}}
    ELSE {TypedDataMessage(broadcaster)}

\* The transform the broadcaster was constructed with, applied to a message.
Transform(broadcaster, msg) ==
    IF broadcaster.transform = "component_data_sample_from_proto"
    THEN component_data_sample_from_proto(msg)
    ELSE ComponentData_from_proto(broadcaster.transform, msg)

\* A receiver that refuses the new value when its buffer is full.
ReceiverPushKeepOldest(receiver, value) ==
    IF Len(receiver.buffer) >= receiver.maxsize
    THEN [receiver EXCEPT !.dropped = @ + 1]
    ELSE [receiver EXCEPT !.buffer = Append(@, value)]

\* A value arriving at a receiver: with the buffer full the oldest value
\* goes to make room.
ReceiverPush(receiver, value) ==
    IF Len(receiver.buffer) >= receiver.maxsize
    THEN [receiver EXCEPT !.buffer = Append(Tail(@), value), !.dropped = @ + 1]
    ELSE [receiver EXCEPT !.buffer = Append(@, value)]

\* A send that reaches the first receiver only.
SendToFirst(broadcaster, value) ==
    [broadcaster EXCEPT !.receivers =
        [n \in 1..Len(@) |-> IF n = 1 THEN ReceiverPush(@[n], value) ELSE @[n]]]

\* sender.send(value): the value goes to every receiver of the channel.
Send(broadcaster, value) ==
    [broadcaster EXCEPT !.receivers =
        [n \in 1..Len(@) |-> IF @[n].status = "closed" THEN @[n]
                             ELSE ReceiverPush(@[n], value)]]

\* A retry strategy that never gives up.
RetryExhaustedNever(retries) == FALSE

\* retry_strategy.next_interval() is None: the limit of retries is reached.
RetryExhausted(retries) ==
    retry_limit # None /\ retries >= retry_limit[1]

\* The end of an upstream call, by an error or by the end of the stream: the
\* pump sleeps for the interval of the strategy, or, with the strategy
\* exhausted, closes the channel and stops.
ConnectionEnded(broadcaster) ==
    IF RetryExhausted(broadcaster.retries)
    THEN [broadcaster EXCEPT !.pc = "stopped", !.closed = TRUE]
    ELSE [broadcaster EXCEPT !.pc = "sleeping", !.retries = @ + 1]

RECURSIVE SumOver(_, _)
SumOver(seq, n) == IF n = 0 THEN 0 ELSE seq[n] + SumOver(seq, n - 1)

\* Messages the server has sent so far, on all streams.
TotalMessages ==
    SumOver([i \in 1..Len(pumps) |-> Len(pumps[i].upstream)], Len(pumps))

\* Upstream calls that have failed or ended so far.
TotalEnded ==
    SumOver([i \in 1..Len(pumps) |->
                pumps[i].opens - (IF pumps[i].pc = "streaming" THEN 1 ELSE 0)],
            Len(pumps))

\* The pump calls the stream method; the call connects, which resets the
\* strategy, or fails. With the client closed the stream method makes no
\* call: self.stub raises ClientNotConnected, which the pump takes for one
\* more failure or which ends the pump task as it is.
PumpOpen(i) ==
    /\ pumps[i].pc = "opening"
    /\ IF client_closed
       THEN \/ /\ pumps[i].retries < MaxFailures
               /\ pumps' = [pumps EXCEPT ![i] = ConnectionEnded(@)]
            \/ pumps' = [pumps EXCEPT ![i].pc = "crashed"]
       ELSE \E connects \in BOOLEAN :
            /\ connects \/ TotalEnded < MaxFailures
            /\ pumps' = [pumps EXCEPT ![i] =
                            IF connects
                            THEN [@ EXCEPT !.pc = "streaming", !.opens = @ + 1,
                                           !.retries = 0]
                            ELSE ConnectionEnded([@ EXCEPT !.opens = @ + 1])]
    /\ last_sub' = NoSub
    /\ UNCHANGED <<powerVars, decodeVars, errorVars, client_closed, callers, hash_of, retry_limit,
                   broadcasters, sub_count>>

\* A pump for which a message that fails to decode is the end of the call.
FailedMessageEndsCall(broadcaster) == ConnectionEnded(broadcaster)

\* The pump after a message its transform failed on: the message is logged
\* and skipped, and the pump goes on as it was.
SkipMessage(broadcaster) == broadcaster

\* A message arrives: it is transformed and sent to the receivers; a message
\* the transform fails on is skipped.
PumpMessage(i) ==
    /\ pumps[i].pc = "streaming"
    /\ ~client_closed
    /\ TotalMessages < MaxMessages
    /\ \E msg \in ServerMessages(pumps[i]) :
        LET transformed == Transform(pumps[i], msg)
            received == [pumps[i] EXCEPT !.upstream =
                            Append(@, [call |-> pumps[i].opens, message |-> msg])]
        IN  pumps' = [pumps EXCEPT ![i] =
                        IF transformed.raised # "none" THEN SkipMessage(received)
                        ELSE Send(received, transformed.value)]
    /\ last_sub' = NoSub
    /\ UNCHANGED <<powerVars, decodeVars, errorVars, client_closed, callers, hash_of, retry_limit,
                   broadcasters, sub_count>>

\* The upstream call ends or fails while streaming.
PumpStreamEnds(i) ==
    /\ pumps[i].pc = "streaming"
    /\ client_closed \/ TotalEnded < MaxFailures
    /\ pumps' = [pumps EXCEPT ![i] = ConnectionEnded(@)]
    /\ last_sub' = NoSub
    /\ UNCHANGED <<powerVars, decodeVars, errorVars, client_closed, callers, hash_of, retry_limit,
                   broadcasters, sub_count>>

\* The sleep of the pump is over: it opens the call again.
PumpWake(i) ==
    /\ pumps[i].pc = "sleeping"
    /\ pumps' = [pumps EXCEPT ![i].pc = "opening"]
    /\ last_sub' = NoSub
    /\ UNCHANGED <<powerVars, decodeVars, errorVars, client_closed, callers, hash_of, retry_limit,
                   broadcasters, sub_count>>

\* receiver.receive(): the oldest value of the buffer; with the buffer empty
\* and the channel closed the receiver is at its end; otherwise it waits.
Receive(i, j) ==
    /\ pumps[i].receivers[j].status = "open"
    /\ \/ /\ pumps[i].receivers[j].buffer # <<>>
          /\ pumps' = [pumps EXCEPT ![i].receivers[j] =
                        [@ EXCEPT !.got = Append(@, Head(pumps[i].receivers[j].buffer)),
                                  !.buffer = Tail(@)]]
       \/ /\ pumps[i].receivers[j].buffer = <<>>
          /\ pumps[i].closed
          /\ pumps' = [pumps EXCEPT ![i].receivers[j].status = "completed"]
    /\ last_sub' = NoSub
    /\ UNCHANGED <<powerVars, decodeVars, errorVars, client_closed, callers, hash_of, retry_limit,
                   broadcasters, sub_count>>

\* receiver.close(): the receiver leaves the channel with its buffer; the
\* broadcaster and its other receivers are as they were.
CloseReceiver(i, j) ==
    /\ pumps[i].receivers[j].status = "open"
    /\ pumps' = [pumps EXCEPT ![i].receivers[j] =
                    [@ EXCEPT !.status = "closed", !.buffer = <<>>]]
    /\ last_sub' = NoSub
    /\ UNCHANGED <<powerVars, decodeVars, errorVars, client_closed, callers, hash_of, retry_limit,
                   broadcasters, sub_count>>

\* The client is closed (the __aexit__ and disconnect() it inherits from
\* BaseApiClient, which MicrogridApiClient does not override): the channel
\* and the stub are gone. No code of the client touches the broadcasters
\* of its registry.
CloseClient ==
    /\ ~client_closed
    /\ client_closed' = TRUE
    /\ last_sub' = NoSub
    /\ UNCHANGED <<powerVars, decodeVars, errorVars, callers, hash_of, retry_limit,
                   broadcasters, pumps, sub_count>>

\* ------------------------------------------------------------------------
\* The typed data methods (meter_data, battery_data), which
\* tests/test_client.py:426-496 exercises
\* ------------------------------------------------------------------------

\* The components the server lists (the fixture component_list).
ComponentList ==
    { [id |-> 83, category |-> 2], [id |-> 38, category |-> 5],
      [id |-> 99, category |-> 3], [id |-> 101, category |-> 6] }

\* The component ids the typed methods are asked for; 20 is not listed.
TypedComponentIds == {83, 38, 20}

\* The check without the comparison of the category.
ExpectCategoryFoundOnly(components, component_id, expected) ==
    IF \A c \in components : c.id # component_id THEN "ValueError" ELSE "ok"

\* The check of the typed methods: the component has to be listed and to be
\* of the category of the method.
_expect_category(components, component_id, expected) ==
    IF \A c \in components : c.id # component_id
    THEN "ValueError"
    ELSE IF \E c \in components : c.id = component_id /\ c.category # expected
         THEN "ValueError"
         ELSE "ok"

\* The body the typed methods share: the components are listed, the
\* component checked, and a receiver of the broadcaster of the component,
\* constructed when there is none, returned.
ComponentDataMethod(method, expected, cls, component_id, maxsize, answer) ==
    LET checked == IF answer # "ok" THEN "ApiClientError"
                   ELSE _expect_category(ComponentList, component_id, expected)
        found == RegistryGet(component_id)
        created == found = None
        index == IF created THEN Len(pumps) + 1 ELSE found[1]
        constructed == IF created
                       THEN Append(pumps, GrpcStreamBroadcaster(component_id, {}, cls))
                       ELSE pumps
        request == [method |-> method,
                    component |-> [kind |-> "ComponentId", id |-> component_id],
                    metrics |-> <<>>, buffer_size |-> maxsize,
                    created |-> FALSE, index |-> 0, outcome |-> checked]
    IN  /\ call_count' = call_count + 1
        /\ call_args' = Some([method |-> "ListComponents"])
        /\ sub_count' = sub_count + 1
        /\ IF checked # "ok"
           THEN /\ last_sub' = request
                /\ UNCHANGED <<pumps, broadcasters>>
           ELSE /\ pumps' = [constructed EXCEPT
                                ![index] = new_receiver(@, maxsize, component_id)]
                /\ broadcasters' = IF created
                                   THEN DictSet(broadcasters, component_id, index)
                                   ELSE broadcasters
                /\ last_sub' = [request EXCEPT !.created = created, !.index = index]

meter_data ==
    /\ sub_count < MaxSubscriptions
    /\ UNCHANGED <<last_op, decodeVars, errorVars, client_closed, callers, hash_of, retry_limit>>
    /\ \E component_id \in TypedComponentIds, maxsize \in BufferSizes,
          answer \in StubOutcomes :
        ComponentDataMethod("meter_data", 2, "MeterData", component_id, maxsize, answer)

battery_data ==
    /\ sub_count < MaxSubscriptions
    /\ UNCHANGED <<last_op, decodeVars, errorVars, client_closed, callers, hash_of, retry_limit>>
    /\ \E component_id \in TypedComponentIds, maxsize \in BufferSizes,
          answer \in StubOutcomes :
        ComponentDataMethod("battery_data", 5, "BatteryData", component_id, maxsize,
                            answer)

\* ------------------------------------------------------------------------
\* Connections: component_connection_from_proto
\* ------------------------------------------------------------------------

\* _get_operational_lifetime_from_proto of _connection_proto.py without its
\* try/except: the ValueError of an invalid lifetime reaches the caller.
ConnectionLifetimeUnguarded(message, major_issues, minor_issues) ==
    IF message.operational_lifetime # None
    THEN LET r == lifetime_from_proto(message.operational_lifetime[1])
         IN  [raised |-> r.raised, value |-> r.value,
              major |-> major_issues, minor |-> minor_issues]
    ELSE [raised |-> "none", value |-> UnboundedLifetime,
          major |-> major_issues,
          minor |-> Append(minor_issues, "missing operational lifetime")]

\* _get_operational_lifetime_from_proto of _connection_proto.py: the
\* lifetime of the message, or Lifetime() with an issue when it is missing
\* or invalid.
connection_get_operational_lifetime_from_proto(message, major_issues, minor_issues) ==
    IF message.operational_lifetime # None
    THEN LET r == lifetime_from_proto(message.operational_lifetime[1])
         IN  IF r.raised = "none"
             THEN [raised |-> "none", value |-> r.value,
                   major |-> major_issues, minor |-> minor_issues]
             ELSE [raised |-> "none", value |-> UnboundedLifetime,
                   major |-> Append(major_issues, "invalid operational lifetime"),
                   minor |-> minor_issues]
    ELSE [raised |-> "none", value |-> UnboundedLifetime,
          major |-> major_issues,
          minor |-> Append(minor_issues, "missing operational lifetime")]

\* A decoder that refuses a connection of a component to itself.
ConnectionFromProtoRejectsLoop(message) ==
    LET lifetime == connection_get_operational_lifetime_from_proto(message, <<>>, <<>>)
    IN  IF message.source_component_id = message.destination_component_id
        THEN [raised |-> "ValueError", value |-> None, log |-> <<>>,
              major |-> <<>>, minor |-> <<>>]
        ELSE [raised |-> "none",
              value |-> Some([cls |-> "ComponentConnection",
                              source |-> message.source_component_id,
                              destination |-> message.destination_component_id,
                              operational_lifetime |-> lifetime.value]),
              log |-> Issue(Issue(<<>>, lifetime.major # <<>>, "warning"),
                            lifetime.minor # <<>>, "debug"),
              major |-> lifetime.major, minor |-> lifetime.minor]

\* component_connection_from_proto: the connection of the message; a source
\* equal to the destination is a major issue; major issues are logged as one
\* warning, minor ones as one debug message.
component_connection_from_proto(message) ==
    LET source_component_id == message.source_component_id
        destination_component_id == message.destination_component_id
        major1 == Issue(<<>>, source_component_id = destination_component_id,
                        "source and destination are the same")
        lifetime == connection_get_operational_lifetime_from_proto(message, major1, <<>>)
        log1 == Issue(<<>>, lifetime.major # <<>>, "warning")
        log2 == Issue(log1, lifetime.minor # <<>>, "debug")
    IN  IF lifetime.raised # "none"
        THEN [raised |-> lifetime.raised, value |-> None, log |-> <<>>,
              major |-> lifetime.major, minor |-> lifetime.minor]
        ELSE [raised |-> "none",
              value |-> Some([cls |-> "ComponentConnection",
                              source |-> source_component_id,
                              destination |-> destination_component_id,
                              operational_lifetime |-> lifetime.value]),
              log |-> log2, major |-> lifetime.major, minor |-> lifetime.minor]

\* operational_lifetime of a connection on the wire: absent, with one side
\* only, with both sides in order or equal, or with start after end.
WireConnectionLifetimes ==
    {None,
     Some([start |-> None, end |-> None]),
     Some([start |-> Some(1), end |-> None]),
     Some([start |-> None, end |-> Some(2)]),
     Some([start |-> Some(1), end |-> Some(2)]),
     Some([start |-> Some(2), end |-> Some(2)]),
     Some([start |-> Some(2), end |-> Some(1)])}

\* The ids of the components connections name on the wire.
WireComponentIds == {0, 7, 9}

ConnectionMessages ==
    [source_component_id : WireComponentIds,
     destination_component_id : WireComponentIds,
     operational_lifetime : WireConnectionLifetimes]

\* A caller decodes the connection message it holds.
DecodeConnection ==
    /\ decoded = None
    /\ "source_component_id" \in DOMAIN wire_message
    /\ decoded' = Some(component_connection_from_proto(wire_message))
    /\ UNCHANGED <<wire_message, powerVars, errorVars, streamVars>>

\* ------------------------------------------------------------------------
\* The read operations: list_components, list_connections
\* ------------------------------------------------------------------------

\* Entries a ListComponents or ListConnections response carries at most.
MaxListed == 2

\* COMPONENT_CATEGORY_SENSOR on the wire; ComponentCategory has no member of
\* this value.
COMPONENT_CATEGORY_SENSOR == 7

\* The Component messages a server lists: meters, batteries and sensors.
ListedComponentMessages ==
    {[PlainMessage EXCEPT !.id = i, !.category = c] :
        i \in {0, 1}, c \in {2, 5, COMPONENT_CATEGORY_SENSOR}}

ListedConnectionMessages ==
    [source_component_id : {0, 7},
     destination_component_id : {0, 9},
     operational_lifetime : {None}]

\* The responses of the server to ListComponents and to ListConnections.
ComponentListResponses ==
    [components : UNION {[1..n -> ListedComponentMessages] : n \in 0..MaxListed}]

ConnectionListResponses ==
    [connections : UNION {[1..n -> ListedConnectionMessages] : n \in 0..MaxListed}]

\* The filters a caller passes: none, or one component.
FilterArgs ==
    {<<>>, <<[kind |-> "ComponentId", id |-> 83]>>,
     <<[kind |-> "Component", id |-> 7], [kind |-> "ComponentId", id |-> 83]>>}

\* The record kept of a read operation: its two filters and its outcome.
ListOpRecord(op, first, second, outcome) ==
    [op |-> op, first |-> first, second |-> second, outcome |-> outcome,
     calls_before |-> call_count]

\* _get_category_value: the integer of a category or of an integer.
_get_category_value(category) == category.value

\* map(function, messages) consumed by the caller: the values in the order
\* of the messages; an exception of the function ends the iteration.
MapDecoded(results) ==
    [raised |-> IF \E n \in 1..Len(results) : results[n].raised # "none"
                THEN "ValueError" ELSE "none",
     value |-> IF \E n \in 1..Len(results) : results[n].raised # "none"
               THEN <<>>
               ELSE [n \in 1..Len(results) |-> results[n].value[1]]]

\* A list_components that leaves the sensors out.
ListComponentsSkipSensors(component_list) ==
    LET kept == SelectSeq(component_list.components,
                          LAMBDA m : m.category # COMPONENT_CATEGORY_SENSOR)
    IN  MapDecoded([n \in 1..Len(kept) |-> component_from_proto(kept[n])])

\* The return of list_components: map(component_from_proto,
\* component_list.components).
ListComponentsResult(component_list) ==
    MapDecoded([n \in 1..Len(component_list.components) |->
                    component_from_proto(component_list.components[n])])

\* list_components: one ListComponents call with the filters, then every
\* entry of the response decoded.
list_components ==
    /\ decoded = None
    /\ "components" \in DOMAIN wire_message
    /\ \E components \in FilterArgs, categories \in {<<>>, <<Member(5)>>, <<RawInt(7)>>},
          answer \in StubOutcomes :
        /\ CallStub([method |-> "ListComponents",
                     component_ids |-> [n \in 1..Len(components) |->
                                            _get_component_id(components[n])],
                     categories |-> [n \in 1..Len(categories) |->
                                        _get_category_value(categories[n])]])
        /\ decoded' = Some(IF answer = "ok"
                           THEN ListComponentsResult(wire_message)
                           ELSE [raised |-> StubResult(answer), value |-> <<>>])
        /\ last_op' = ListOpRecord("list_components", components, categories,
                                   StubResult(answer))
    /\ UNCHANGED <<wire_message, errorVars, streamVars>>

\* A list_connections that leaves out the connections of a component to
\* itself.
ListConnectionsSkipLoops(connection_list) ==
    LET kept == SelectSeq(connection_list.connections,
                          LAMBDA m : m.source_component_id # m.destination_component_id)
    IN  MapDecoded([n \in 1..Len(kept) |-> component_connection_from_proto(kept[n])])

\* A list_connections that returns each connection once.
ListConnectionsDistinct(connection_list) ==
    LET seq == connection_list.connections
        keep == {n \in 1..Len(seq) : \A k \in 1..(n - 1) : seq[k] # seq[n]}
        nth(i) == CHOOSE n \in keep : Cardinality({k \in keep : k < n}) = i - 1
        once == [i \in 1..Cardinality(keep) |-> seq[nth(i)]]
    IN  MapDecoded([n \in 1..Len(once) |-> component_connection_from_proto(once[n])])

\* The return of list_connections: map(component_connection_from_proto,
\* connection_list.connections).
ListConnectionsResult(connection_list) ==
    MapDecoded([n \in 1..Len(connection_list.connections) |->
                    component_connection_from_proto(connection_list.connections[n])])

\* list_connections: one ListConnections call with the filters, then every
\* entry of the response decoded.
list_connections ==
    /\ decoded = None
    /\ "connections" \in DOMAIN wire_message
    /\ \E sources \in FilterArgs, destinations \in FilterArgs, answer \in StubOutcomes :
        /\ CallStub([method |-> "ListConnections",
                     starts |-> [n \in 1..Len(sources) |->
                                    _get_component_id(sources[n])],
                     ends |-> [n \in 1..Len(destinations) |->
                                    _get_component_id(destinations[n])]])
        /\ decoded' = Some(IF answer = "ok"
                           THEN ListConnectionsResult(wire_message)
                           ELSE [raised |-> StubResult(answer), value |-> <<>>])
        /\ last_op' = ListOpRecord("list_connections", sources, destinations,
                                   StubResult(answer))
    /\ UNCHANGED <<wire_message, errorVars, streamVars>>

\* ------------------------------------------------------------------------
\* The ComponentData messages a caller decodes
\* ------------------------------------------------------------------------

\* Metric samples and state samples a ComponentData message carries at most.
MaxSamples == 1

\* A metric sample on the wire: a known or an unknown metric, with no
\* bounds, valid bounds, invalid bounds, or both.
WireMetricSamples ==
    [sampled_at : {1},
     metric : {1, 999},
     bounds : {<<>>, <<ValidBounds>>, <<InvalidBounds>>, <<ValidBounds, InvalidBounds>>}]

\* A state sample on the wire: codes the client knows (READY 7, UNKNOWN 1,
\* UNDERVOLTAGE 3, INTERNAL 21) and codes it does not (999, 77, 1000).
WireStateSamples ==
    [sampled_at : {1},
     states : {<<>>, <<7>>, <<1>>, <<7, 999>>},
     warnings : {<<>>, <<3>>, <<77>>},
     errors : {<<>>, <<21>>, <<1000>>}]

SampleMessages ==
    [component_id : {83},
     metric_samples : UNION {[1..n -> WireMetricSamples] : n \in 0..MaxSamples},
     states : UNION {[1..n -> WireStateSamples] : n \in 0..MaxSamples}]

\* A caller decodes the ComponentData message it holds.
DecodeSample ==
    /\ decoded = None
    /\ "metric_samples" \in DOMAIN wire_message
    /\ decoded' = Some(component_data_sample_from_proto(wire_message))
    /\ UNCHANGED <<wire_message, powerVars, errorVars, streamVars>>

\* ------------------------------------------------------------------------
\* The legacy state enums (_component_states.py) and their from_pb
\* ------------------------------------------------------------------------

LegacyStateEnums ==
    {"BatteryComponentState", "BatteryRelayState", "EVChargerCableState",
     "EVChargerComponentState", "InverterComponentState"}

\* The members of each enum in the order of their declaration. Their values
\* are those of the protobuf constants they are defined by, numbered from 0
\* in this order.
MembersOf(cls) ==
    CASE cls = "BatteryComponentState" ->
            <<"UNSPECIFIED", "OFF", "IDLE", "CHARGING", "DISCHARGING", "ERROR",
              "LOCKED", "SWITCHING_ON", "SWITCHING_OFF", "UNKNOWN">>
      [] cls = "BatteryRelayState" ->
            <<"UNSPECIFIED", "OPENED", "PRECHARGING", "CLOSED", "ERROR", "LOCKED">>
      [] cls = "EVChargerCableState" ->
            <<"UNSPECIFIED", "UNPLUGGED", "CHARGING_STATION_PLUGGED",
              "CHARGING_STATION_LOCKED", "EV_PLUGGED", "EV_LOCKED">>
      [] cls = "EVChargerComponentState" ->
            <<"UNSPECIFIED", "STARTING", "NOT_READY", "READY", "CHARGING",
              "DISCHARGING", "ERROR", "AUTHORIZATION_REJECTED", "INTERRUPTED",
              "UNKNOWN">>
      [] cls = "InverterComponentState" ->
            <<"UNSPECIFIED", "OFF", "SWITCHING_ON", "SWITCHING_OFF", "STANDBY",
              "IDLE", "CHARGING", "DISCHARGING", "ERROR", "UNAVAILABLE", "UNKNOWN">>

\* The member of the enum with this name.
MemberNamed(cls, name) ==
    LET value == CHOOSE v \in 0..(Len(MembersOf(cls)) - 1) : MembersOf(cls)[v + 1] = name
    IN  [cls |-> cls, name |-> name, value |-> value]

\* cls(state): the member with this value, or a ValueError.
EnumCall(cls, state) ==
    IF state \in 0..(Len(MembersOf(cls)) - 1)
    THEN [raised |-> "none",
          value |-> Some([cls |-> cls, name |-> MembersOf(cls)[state + 1], value |-> state])]
    ELSE [raised |-> "ValueError", value |-> None]

\* The member the except branch of each from_pb returns: cls.UNKNOWN, or
\* cls.UNSPECIFIED in the enums that have no UNKNOWN.
FallbackOf(cls) ==
    CASE cls = "BatteryComponentState" -> "UNKNOWN"
      [] cls = "BatteryRelayState" -> "UNSPECIFIED"
      [] cls = "EVChargerCableState" -> "UNSPECIFIED"
      [] cls = "EVChargerComponentState" -> "UNKNOWN"
      [] cls = "InverterComponentState" -> "UNKNOWN"

\* A from_pb with no except branch.
FromPbUnguarded(cls, state) == EnumCall(cls, state)

\* from_pb: try: return cls(state); except ValueError: return
\* cls(cls.UNKNOWN) (cls(cls.UNSPECIFIED)).
from_pb(cls, state) ==
    LET r == EnumCall(cls, state)
    IN  IF r.raised = "none" THEN r
        ELSE [raised |-> "none", value |-> Some(MemberNamed(cls, FallbackOf(cls)))]

\* The largest integer a state comes as on the wire; the smallest is -1.
MaxStateValue == 12

PbStates == [cls : LegacyStateEnums, state : -1..MaxStateValue]

\* A caller converts the protobuf state it holds.
ConvertState ==
    /\ decoded = None
    /\ "state" \in DOMAIN wire_message
    /\ decoded' = Some(from_pb(wire_message.cls, wire_message.state))
    /\ UNCHANGED <<wire_message, powerVars, errorVars, streamVars>>

\* ------------------------------------------------------------------------
\* Lifetime.active and ComponentConnection.active
\* ------------------------------------------------------------------------

\* The latest instant of a lifetime and of the clock; instants are integers.
MaxInstant == 3

\* The lifetimes that exist: Lifetime.__post_init__ has let them through.
Lifetimes ==
    {l \in [start : {None} \cup {Some(t) : t \in 1..MaxInstant},
            end : {None} \cup {Some(t) : t \in 1..MaxInstant}] :
        Lifetime_post_init(l.start, l.end) = "none"}

\* Lifetime.active, with now the datetime.now() of the call.
Lifetime_active(self, now) ==
    IF self.start # None /\ self.start[1] > now
    THEN FALSE
    ELSE self.end = None \/ self.end[1] >= now

\* ComponentConnection.active
ComponentConnection_active(self, now) ==
    Lifetime_active(self.operational_lifetime, now)

\* The objects active is read of, and the time it is read at.
ActiveQueries ==
    [of : {"Lifetime", "ComponentConnection"},
     operational_lifetime : Lifetimes,
     now : 0..(MaxInstant + 1)]

\* A caller reads active for the first time (the property is cached).
ReadActive ==
    /\ decoded = None
    /\ "now" \in DOMAIN wire_message
    /\ decoded' =
        Some(IF wire_message.of = "Lifetime"
             THEN Lifetime_active(wire_message.operational_lifetime, wire_message.now)
             ELSE ComponentConnection_active(
                    [source |-> 7, destination |-> 9,
                     operational_lifetime |-> wire_message.operational_lifetime],
                    wire_message.now))
    /\ UNCHANGED <<wire_message, powerVars, errorVars, streamVars>>

\* ------------------------------------------------------------------------
\* _category_matches on its own
\* ------------------------------------------------------------------------

\* The names of the metadata oneof of a Component message.
MetadataNames ==
    {"battery", "ev_charger", "fuse", "grid", "inverter", "voltage_transformer"}

\* The arguments of _category_matches: a oneof name and a category member.
CategoryMatchQueries ==
    [metadata_category : MetadataNames, category : ComponentCategory]

\* A caller asks whether a metadata name matches a category.
CheckCategoryMatches ==
    /\ decoded = None
    /\ "metadata_category" \in DOMAIN wire_message
    /\ decoded' = Some(_category_matches(wire_message.metadata_category,
                                         Member(wire_message.category)))
    /\ UNCHANGED <<wire_message, powerVars, errorVars, streamVars>>

\* ------------------------------------------------------------------------
\* Concurrent callers of receive_component_data_samples_stream
\* ------------------------------------------------------------------------

\* Tasks that call the client concurrently.
MaxCallers == 2

\* A task that is about to run `await
\* client.receive_component_data_samples_stream(component, metrics,
\* buffer_size=buffer_size)`: the event loop runs it from one await to the
\* next, and other tasks (other callers, the pumps, the subscribers) run in
\* between.
CallerTask(component, metrics, buffer_size) ==
    [pc |-> "ready", component |-> component, metrics |-> metrics,
     buffer_size |-> buffer_size, found |-> None, receiver |-> None]

ConcurrentCallers ==
    [1..MaxCallers ->
        {CallerTask(component, metrics, 1) :
            component \in StreamComponentArgs,
            metrics \in {<<Member(1)>>, <<RawInt(2), Member(1)>>}}]

\* The registry key of the request of a task.
CallerKey(t) ==
    StreamKey(_get_component_id(callers[t].component), MetricsSet(callers[t].metrics))

\* A body that is suspended between the lookup and the rest: the task keeps
\* what the lookup gave and goes on with it when it is resumed.
CallerStepSuspending(t) ==
    /\ UNCHANGED <<powerVars, decodeVars, errorVars, client_closed, hash_of, retry_limit>>
    /\ \/ /\ callers[t].pc = "ready"
          /\ callers' = [callers EXCEPT ![t].pc = "suspended",
                                        ![t].found = Some(RegistryGet(CallerKey(t)))]
          /\ last_sub' = NoSub
          /\ UNCHANGED <<broadcasters, pumps, sub_count>>
       \/ /\ callers[t].pc = "suspended"
          /\ StreamRequest(callers[t].component, callers[t].metrics,
                           callers[t].buffer_size, callers[t].found[1])
          /\ callers' = [callers EXCEPT
                            ![t].pc = "returned",
                            ![t].receiver =
                                Some(<<last_sub'.index,
                                       Len(pumps'[last_sub'.index].receivers)>>)]

\* The event loop runs the task of caller t: the body of
\* receive_component_data_samples_stream has no await, so it runs from the
\* lookup to the return in one step.
CallerStep(t) ==
    /\ callers[t].pc = "ready"
    /\ StreamRequest(callers[t].component, callers[t].metrics, callers[t].buffer_size,
                     RegistryGet(CallerKey(t)))
    /\ callers' = [callers EXCEPT
                      ![t].pc = "returned",
                      ![t].receiver =
                          Some(<<last_sub'.index, Len(pumps'[last_sub'.index].receivers)>>)]
    /\ UNCHANGED <<powerVars, decodeVars, errorVars, client_closed, hash_of, retry_limit>>

\* ------------------------------------------------------------------------
\* active as a cached property, read while the clock advances
\* ------------------------------------------------------------------------

\* Reads of active a caller makes at most.
MaxReads == 3

\* A property that is computed at every access.
PropertyAccess(cache, computed) == computed

\* functools.cached_property: the value stored in the instance by the first
\* access, or the value computed now when there is none.
CachedPropertyAccess(cache, computed) ==
    IF cache # None THEN cache[1] ELSE computed

\* An instance (a Lifetime, or a ComponentConnection with its Lifetime), the
\* clock, what the instances have cached so far and the reads made of active.
ClockedInstances ==
    [of : {"Lifetime", "ComponentConnection"},
     operational_lifetime : Lifetimes,
     clock : {0},
     lifetime_cache : {None},
     connection_cache : {None},
     reads : {<<>>}]

\* Time passes.
Tick ==
    /\ "clock" \in DOMAIN wire_message
    /\ wire_message.clock <= MaxInstant
    /\ wire_message' = [wire_message EXCEPT !.clock = @ + 1]
    /\ UNCHANGED <<decoded, powerVars, errorVars, streamVars>>

\* A caller reads active of the instance: of the Lifetime, or of the
\* ComponentConnection, which reads it of its Lifetime.
AccessActive ==
    /\ "clock" \in DOMAIN wire_message
    /\ Len(wire_message.reads) < MaxReads
    /\ LET of_lifetime ==
                CachedPropertyAccess(wire_message.lifetime_cache,
                                     Lifetime_active(wire_message.operational_lifetime,
                                                     wire_message.clock))
           connection_cached == /\ wire_message.of = "ComponentConnection"
                                /\ wire_message.connection_cache # None
           result == IF wire_message.of = "Lifetime" THEN of_lifetime
                     ELSE CachedPropertyAccess(wire_message.connection_cache, of_lifetime)
       IN  /\ wire_message' =
                [wire_message EXCEPT
                    !.lifetime_cache = IF connection_cached THEN @ ELSE Some(of_lifetime),
                    !.connection_cache = IF wire_message.of = "ComponentConnection"
                                         THEN Some(result) ELSE @,
                    !.reads = Append(@, [at |-> wire_message.clock, value |-> result])]
           /\ decoded' = Some(result)
    /\ UNCHANGED <<powerVars, errorVars, streamVars>>

\* ------------------------------------------------------------------------
\* The iterator list_components and list_connections return
\* ------------------------------------------------------------------------

\* Iterations a caller starts over one returned object at most.
MaxPasses == 2

\* iter() of a list: a new iterator, at the first entry.
ListIter(position) == 0

\* iter() of a map object: the object itself, where it is.
MapIter(position) == position

\* map(function, entries): nothing is decoded yet.
MapObject(function, entries) ==
    [raised |-> "none", function |-> function, entries |-> entries,
     position |-> 0, log |-> <<>>, passes |-> <<>>]

\* The function of a map object applied to one entry.
MapFunction(function, entry) ==
    IF function = "component_from_proto" THEN component_from_proto(entry)
    ELSE component_connection_from_proto(entry)

\* The call of list_components or list_connections up to its return: the
\* request is made and awaited, and the map object over the entries of the
\* response returned; a call that fails raises.
ListCall ==
    /\ decoded = None
    /\ \E answer \in StubOutcomes :
        \/ /\ "components" \in DOMAIN wire_message
           /\ CallStub([method |-> "ListComponents", component_ids |-> <<>>,
                        categories |-> <<>>])
           /\ last_op' = ListOpRecord("list_components", <<>>, <<>>, StubResult(answer))
           /\ decoded' = Some(IF answer = "ok"
                              THEN MapObject("component_from_proto",
                                             wire_message.components)
                              ELSE [raised |-> StubResult(answer)])
        \/ /\ "connections" \in DOMAIN wire_message
           /\ CallStub([method |-> "ListConnections", starts |-> <<>>, ends |-> <<>>])
           /\ last_op' = ListOpRecord("list_connections", <<>>, <<>>, StubResult(answer))
           /\ decoded' = Some(IF answer = "ok"
                              THEN MapObject("component_connection_from_proto",
                                             wire_message.connections)
                              ELSE [raised |-> StubResult(answer)])
    /\ UNCHANGED <<wire_message, errorVars, streamVars>>

\* The caller starts to iterate over the returned object (for ... in, list()).
IterStart ==
    /\ decoded # None
    /\ decoded[1].raised = "none"
    /\ Len(decoded[1].passes) < MaxPasses
    /\ \A k \in 1..Len(decoded[1].passes) : decoded[1].passes[k].done
    /\ decoded' = Some([decoded[1] EXCEPT
                            !.position = MapIter(@),
                            !.passes = Append(@, [yielded |-> <<>>, done |-> FALSE])])
    /\ UNCHANGED <<wire_message, powerVars, errorVars, streamVars>>

\* The running iteration asks for the next value: the next entry is decoded,
\* with its issues logged, or the iteration ends when none is left.
IterNext ==
    /\ decoded # None
    /\ decoded[1].raised = "none"
    /\ decoded[1].passes # <<>>
    /\ LET it == decoded[1]
           pass == Len(it.passes)
       IN  /\ ~it.passes[pass].done
           /\ IF it.position < Len(it.entries)
              THEN LET r == MapFunction(it.function, it.entries[it.position + 1])
                   IN  decoded' = Some([it EXCEPT
                            !.position = @ + 1,
                            !.log = @ \o r.log,
                            !.passes[pass].yielded = Append(@, r.value[1])])
              ELSE decoded' = Some([it EXCEPT !.passes[pass].done = TRUE])
    /\ UNCHANGED <<wire_message, powerVars, errorVars, streamVars>>

\* ------------------------------------------------------------------------
\* Claims
\* ------------------------------------------------------------------------

IsSetPower(op) == op \in {"set_component_power_active", "set_component_power_reactive"}

StubMethodOf(op) ==
    IF op = "set_component_power_active" THEN "SetComponentPowerActive"
    ELSE "SetComponentPowerReactive"

\* C2: with validate_arguments true, a set power call whose power is NaN or
\* whose lifetime in seconds is below 10 or above 900 ends in a ValueError
\* with no stub call made, and a call with valid arguments makes exactly one
\* stub call, of the method of the operation, carrying those arguments.
C2_ValidationBeforeCall ==
    (IsSetPower(last_op.op) /\ last_op.validate) =>
        LET invalid == \/ last_op.power = "nan"
                       \/ /\ last_op.seconds # None
                          /\ (last_op.seconds[1] < 10 \/ last_op.seconds[1] > 900)
        IN  /\ invalid => /\ last_op.outcome = "ValueError"
                          /\ call_count = last_op.calls_before
            /\ ~invalid => /\ last_op.outcome \in {"ok", "ApiClientError"}
                           /\ call_count = last_op.calls_before + 1
                           /\ call_args # None
                           /\ call_args[1].method = StubMethodOf(last_op.op)
                           /\ call_args[1].power = last_op.power
                           /\ call_args[1].request_lifetime = last_op.seconds

\* C2 witness: a validated call was rejected for a lifetime above the maximum
\* after an earlier call had gone through to the stub.
C2_Witness ==
    /\ IsSetPower(last_op.op)
    /\ last_op.validate
    /\ last_op.power # "nan"
    /\ last_op.seconds # None
    /\ last_op.seconds[1] > 900
    /\ last_op.outcome = "ValueError"
    /\ call_count = 1

\* C10: set_bounds with upper < 0 or lower > 0 ends in a ValueError with no
\* stub call made; with lower <= 0 <= upper it makes exactly one bounds
\* request, which carries those bounds.
C10_BoundsStraddleZero ==
    last_op.op = "set_bounds" =>
        /\ (last_op.upper < 0 \/ last_op.lower > 0) =>
                /\ last_op.outcome = "ValueError"
                /\ call_count = last_op.calls_before
        /\ (last_op.lower <= 0 /\ 0 <= last_op.upper) =>
                /\ last_op.outcome \in {"ok", "ApiClientError"}
                /\ call_count = last_op.calls_before + 1
                /\ call_args # None
                /\ call_args[1].method = "AddInclusionBounds"
                /\ call_args[1].lower = last_op.lower
                /\ call_args[1].upper = last_op.upper

\* C10 witness: set_bounds rejected a lower bound above zero (the upper bound
\* being fine) after an earlier request had been sent.
C10_Witness ==
    /\ last_op.op = "set_bounds"
    /\ last_op.lower > 0
    /\ last_op.upper >= 0
    /\ last_op.outcome = "ValueError"
    /\ call_count = 1

\* C3: component_from_proto never raises: whatever the message, it returns a
\* component.
C3_DecodeTotal ==
    decoded # None =>
        /\ decoded[1].raised = "none"
        /\ decoded[1].value # None

\* C3 witness: a message with an unrecognized category and status, metadata
\* set, a lifetime with start after end and two bounds entries, one of them
\* with lower above upper, has been decoded.
C3_Witness ==
    /\ decoded # None
    /\ wire_message.category = 99
    /\ wire_message.status = 9
    /\ wire_message.metadata.which = "battery"
    /\ wire_message.operational_lifetime = Some([start |-> Some(2), end |-> Some(1)])
    /\ Len(wire_message.metric_config_bounds) = 2
    /\ wire_message.metric_config_bounds[1].metric = 0
    /\ decoded[1].value # None

\* The category each metadata sub-message belongs to.
MetadataOwner(which) ==
    CASE which = "battery" -> 5
      [] which = "ev_charger" -> 6
      [] which = "fuse" -> 13
      [] which = "grid" -> 1
      [] which = "inverter" -> 3
      [] which = "voltage_transformer" -> 14

\* The component classes of each known category.
ClassesOfCategory(v) ==
    CASE v = 1 -> {"GridConnectionPoint"}
      [] v = 2 -> {"Meter"}
      [] v = 3 -> {"UnspecifiedInverter", "BatteryInverter", "SolarInverter",
                   "HybridInverter", "UnrecognizedInverter"}
      [] v = 4 -> {"Converter"}
      [] v = 5 -> {"UnspecifiedBattery", "LiIonBattery", "NaIonBattery",
                   "UnrecognizedBattery"}
      [] v = 6 -> {"UnspecifiedEvCharger", "AcEvCharger", "DcEvCharger",
                   "HybridEvCharger", "UnrecognizedEvCharger"}
      [] v = 8 -> {"CryptoMiner"}
      [] v = 9 -> {"Electrolyzer"}
      [] v = 10 -> {"Chp"}
      [] v = 11 -> {"Relay"}
      [] v = 12 -> {"Precharger"}
      [] v = 13 -> {"Fuse"}
      [] v = 14 -> {"VoltageTransformer"}
      [] v = 15 -> {"Hvac"}

\* C4: for a known category, metadata of another category gives a
\* MismatchedCategoryComponent with the declared category and the metadata
\* as a dict; metadata of the declared category gives a component of a class
\* of that category.
C4_MismatchedCategory ==
    (/\ decoded # None
     /\ wire_message.category \in ComponentCategory \ {0}
     /\ wire_message.metadata.which # "") =>
        LET c == decoded[1].value[1]
        IN  IF MetadataOwner(wire_message.metadata.which) # wire_message.category
            THEN /\ c.cls = "MismatchedCategoryComponent"
                 /\ c.category = Member(wire_message.category)
                 /\ DOMAIN c.category_specific_metadata =
                        {MetadataFieldName(wire_message.metadata.which)}
                 /\ \A k \in DOMAIN c.category_specific_metadata :
                        c.category_specific_metadata[k] = wire_message.metadata.value
            ELSE /\ c.cls \in ClassesOfCategory(wire_message.category)
                 /\ c.category = Member(wire_message.category)

\* C4 witness: a METER message carrying battery metadata has been decoded as
\* a MismatchedCategoryComponent.
C4_Witness ==
    /\ decoded # None
    /\ wire_message.category = 2
    /\ wire_message.metadata.which = "battery"
    /\ decoded[1].value # None
    /\ decoded[1].value[1].cls = "MismatchedCategoryComponent"

\* C8: the error made of a gRPC error is of the class of its status, which no
\* other status of the map has, or a plain GrpcStatusError for a status that
\* is not in the map, and it carries the server_url, the operation and the
\* gRPC error it was given.
C8_OneTypedError ==
    client_error # None =>
        LET e == client_error[1]
            status == grpc_failure.grpc_error.status
        IN  /\ e.server_url = grpc_failure.server_url
            /\ e.operation = grpc_failure.operation
            /\ e.grpc_error = grpc_failure.grpc_error
            /\ status \in StatusMapKeys =>
                    /\ e.cls # "GrpcStatusError"
                    /\ \A other \in StatusMapKeys \ {status} :
                            from_grpc_error(grpc_failure.server_url,
                                            grpc_failure.operation,
                                            [grpc_failure.grpc_error
                                                EXCEPT !.status = other]).cls # e.cls
            /\ status \notin StatusMapKeys => e.cls = "GrpcStatusError"
            /\ Cardinality(StatusMapKeys) = 16

\* C8 witness: a DATA_LOSS failure of ListConnections has been converted.
C8_Witness ==
    /\ client_error # None
    /\ grpc_failure.grpc_error.status = "DATA_LOSS"
    /\ grpc_failure.operation = "ListConnections"
    /\ client_error[1].cls = "DataLoss"

\* The component id and the set of metric values a stream request names.
RequestedId(component) == component.id

RequestedMetrics(metrics) == {metrics[n].value : n \in 1..Len(metrics)}

\* The broadcasters constructed for this component id and this metric set.
BroadcastersFor(component_id, metrics_set) ==
    {i \in 1..Len(pumps) : /\ pumps[i].component_id = component_id
                           /\ pumps[i].metrics = metrics_set}

\* C1: no two broadcasters are ever constructed for the same component id
\* and set of metric values, and a stream request whose component id and
\* metric set are those of an existing broadcaster constructs none and opens
\* no upstream call: it adds one receiver to that broadcaster.
C1_OneBroadcasterPerKey ==
    /\ [](\A i, j \in 1..Len(pumps) :
            (/\ pumps[i].component_id = pumps[j].component_id
             /\ pumps[i].metrics = pumps[j].metrics) => i = j)
    /\ [][sub_count' = sub_count + 1 =>
            LET same == BroadcastersFor(RequestedId(last_sub'.component),
                                        RequestedMetrics(last_sub'.metrics))
            IN  same # {} =>
                    /\ Len(pumps') = Len(pumps)
                    /\ \A i \in 1..Len(pumps) :
                        /\ pumps'[i].opens = pumps[i].opens
                        /\ pumps'[i].pc = pumps[i].pc
                        /\ Len(pumps'[i].receivers) =
                                Len(pumps[i].receivers) + (IF i \in same THEN 1 ELSE 0)
         ]_vars

\* C1 witness: after a request for ComponentId 83 with DC_VOLTAGE and
\* DC_CURRENT, a request for the Component 83 with the ints 2 and 1 found the
\* broadcaster of the first, which has two receivers and one upstream call.
C1_Witness ==
    /\ sub_count = 2
    /\ last_sub.component = [kind |-> "Component", id |-> 83]
    /\ last_sub.metrics = <<RawInt(2), Member(1)>>
    /\ ~last_sub.created
    /\ Len(pumps) = 1
    /\ pumps[1].metrics = {1, 2}
    /\ Len(pumps[1].receivers) = 2
    /\ pumps[1].opens = 1

\* The values the messages from position since + 1 on decode to, in the
\* order of the messages, without those whose bounds are invalid; a message
\* with no metric sample decodes to a value with no metric.
RECURSIVE DecodedSince(_, _)
DecodedSince(upstream, since) ==
    IF since >= Len(upstream) THEN <<>>
    ELSE LET msg == upstream[since + 1].message
             rest == DecodedSince(upstream, since + 1)
         IN  IF msg.metric_samples = <<>>
             THEN <<[component_id |-> msg.component_id, metrics |-> <<>>,
                     states |-> <<>>]>> \o rest
             ELSE IF msg.metric_samples[1].bounds[1] = ValidBounds
             THEN <<[component_id |-> msg.component_id,
                     metrics |-> <<[sampled_at |-> msg.metric_samples[1].sampled_at,
                                    metric |-> Member(msg.metric_samples[1].metric),
                                    bounds |-> <<ValidBounds>>]>>,
                     states |-> <<>>]>> \o rest
             ELSE rest

\* C6: what a receiver that dropped nothing has received and still buffers
\* is the decoded values of the messages that came on the upstream stream
\* since it subscribed, in their order; so two such receivers of a
\* broadcaster agree on the values both were subscribed for.
C6_SameValuesSameOrder ==
    \A i \in 1..Len(pumps) : \A j \in 1..Len(pumps[i].receivers) :
        LET r == pumps[i].receivers[j]
        IN  r.dropped = 0 =>
                r.got \o r.buffer = DecodedSince(pumps[i].upstream, r.since)

\* C6 witness: two receivers of one broadcaster, subscribed before the first
\* message, have both received the same two values.
C6_Witness ==
    /\ Len(pumps) >= 1
    /\ pumps[1].metrics # {}
    /\ Len(pumps[1].receivers) = 2
    /\ pumps[1].receivers[1].since = 0
    /\ pumps[1].receivers[2].since = 0
    /\ Len(pumps[1].receivers[1].got) = 2
    /\ pumps[1].receivers[2].got = pumps[1].receivers[1].got
    /\ pumps[1].receivers[1].got[1].metrics[1].sampled_at = 1
    /\ pumps[1].receivers[1].got[2].metrics[1].sampled_at = 2

\* C7: a receiver never buffers more than its buffer_size values, and when
\* a value is sent every receiver of the broadcaster gets it at the end of
\* its buffer, a receiver whose buffer is full giving up its oldest value
\* for it, with the pump still streaming afterwards.
C7_BoundedDropOldest ==
    /\ [](\A i \in 1..Len(pumps) : \A j \in 1..Len(pumps[i].receivers) :
            Len(pumps[i].receivers[j].buffer) <= pumps[i].receivers[j].maxsize)
    /\ [][\A i \in 1..Len(pumps) :
            (/\ Len(pumps'[i].upstream) = Len(pumps[i].upstream) + 1
             /\ DecodedSince(pumps'[i].upstream, Len(pumps[i].upstream)) # <<>>) =>
                LET value == DecodedSince(pumps'[i].upstream, Len(pumps[i].upstream))[1]
                IN  /\ pumps'[i].pc = "streaming"
                    /\ \A j \in 1..Len(pumps[i].receivers) :
                        LET before == pumps[i].receivers[j]
                            after == pumps'[i].receivers[j]
                        IN  /\ after.got = before.got
                            /\ after.buffer =
                                IF Len(before.buffer) = before.maxsize
                                THEN Append(Tail(before.buffer), value)
                                ELSE Append(before.buffer, value)
         ]_vars

\* C7 witness: of two receivers of one broadcaster that received nothing
\* yet, the one with buffer_size 1 holds the second value only, having
\* dropped the first, and the one with buffer_size 2 holds both.
C7_Witness ==
    /\ Len(pumps) >= 1
    /\ pumps[1].metrics # {}
    /\ Len(pumps[1].receivers) = 2
    /\ pumps[1].receivers[1].maxsize = 1
    /\ pumps[1].receivers[1].dropped = 1
    /\ Len(pumps[1].receivers[1].buffer) = 1
    /\ pumps[1].receivers[1].buffer[1].metrics[1].sampled_at = 2
    /\ pumps[1].receivers[2].maxsize = 2
    /\ pumps[1].receivers[2].dropped = 0
    /\ Len(pumps[1].receivers[2].buffer) = 2
    /\ pumps[1].pc = "streaming"

\* The retry strategy of the client has no retry left for this broadcaster.
StrategyExhausted(i) ==
    retry_limit # None /\ pumps[i].retries >= retry_limit[1]

\* An upstream call of broadcaster i fails or ends in this step.
UpstreamEnds(i) ==
    \/ pumps[i].pc = "streaming" /\ pumps'[i].pc # "streaming"
    \/ pumps[i].pc = "opening" /\ pumps'[i].pc \notin {"opening", "streaming"}

\* C5 (steps): a broadcaster whose upstream call fails or ends goes to sleep
\* with its channel open and its receivers as they are while the strategy
\* has a retry left, and closes its channel and stops once it has none; a
\* call is opened again from the sleep only; a stopped broadcaster stays
\* stopped and opens nothing.
C5_RetrySteps ==
    \A i \in 1..Len(pumps) :
        /\ UpstreamEnds(i) =>
            IF StrategyExhausted(i)
            THEN pumps'[i].pc = "stopped" /\ pumps'[i].closed
            ELSE /\ pumps'[i].pc = "sleeping"
                 /\ ~pumps'[i].closed
                 /\ pumps'[i].receivers = pumps[i].receivers
        /\ (pumps'[i].pc = "opening" /\ pumps[i].pc # "opening") =>
                pumps[i].pc = "sleeping"
        /\ pumps'[i].opens # pumps[i].opens =>
                pumps[i].pc = "opening" /\ pumps'[i].opens = pumps[i].opens + 1
        /\ pumps[i].pc = "stopped" =>
                /\ pumps'[i].pc = "stopped"
                /\ pumps'[i].opens = pumps[i].opens
                /\ pumps'[i].closed

\* C5: after a failure or the end of its upstream call a broadcaster sleeps
\* and then opens a new call, whose values its receivers get, and once the
\* retry strategy is exhausted it never opens a call again, its channel is
\* closed, and every receiver comes to the end of the stream.
C5_ReconnectUntilExhausted ==
    /\ [][C5_RetrySteps]_vars
    /\ [](\A i \in 1..Len(pumps) :
            /\ pumps[i].closed <=> pumps[i].pc = "stopped"
            /\ \A j \in 1..Len(pumps[i].receivers) :
                /\ pumps[i].receivers[j].status \in {"open", "completed"}
                /\ pumps[i].receivers[j].status = "completed" => pumps[i].closed)
    /\ \A i \in 1..MaxSubscriptions :
        /\ (i <= Len(pumps) /\ pumps[i].pc = "sleeping")
                ~> (/\ i <= Len(pumps)
                    /\ pumps[i].pc \in {"streaming", "sleeping", "stopped"}
                    /\ pumps[i].opens > 1)
        /\ (i <= Len(pumps) /\ pumps[i].closed)
                ~> (/\ i <= Len(pumps)
                    /\ \A j \in 1..Len(pumps[i].receivers) :
                            pumps[i].receivers[j].status = "completed")

\* C5 witness: a receiver subscribed from the start has received a value of
\* the first upstream call and a value of the second, and then, the second
\* call having ended and the third having failed, which exhausted the
\* strategy, has come to the end of the stream.
C5_Witness ==
    /\ retry_limit = Some(1)
    /\ Len(pumps) >= 1
    /\ pumps[1].pc = "stopped"
    /\ pumps[1].closed
    /\ pumps[1].opens = 3
    /\ Len(pumps[1].upstream) = 2
    /\ pumps[1].upstream[1].call = 1
    /\ pumps[1].upstream[2].call = 2
    /\ Len(pumps[1].receivers) >= 1
    /\ Len(pumps[1].receivers[1].got) = 2
    /\ pumps[1].receivers[1].status = "completed"

\* The category the server lists a component with, None when not listed.
ListedCategory(component_id) ==
    CASE component_id = 83 -> Some(2)
      [] component_id = 38 -> Some(5)
      [] component_id = 99 -> Some(3)
      [] component_id = 101 -> Some(6)
      [] OTHER -> None

\* The category each typed method is for.
CategoryOfMethod(method) ==
    CASE method = "meter_data" -> 2
      [] method = "battery_data" -> 5

C11_SensorsExcluded ==
    (decoded # None /\ "components" \in DOMAIN wire_message
     /\ decoded[1].raised = "none") =>
        /\ decoded[1] = ListComponentsSkipSensors(wire_message)
        /\ \A n \in 1..Len(decoded[1].value) :
              decoded[1].value[n].category # RawInt(COMPONENT_CATEGORY_SENSOR)

\* Bounds whose lower bound is above their upper bound.
InvalidWireBounds(b) ==
    b.lower # None /\ b.upper # None /\ b.lower[1] > b.upper[1]

\* C12: metric bounds are decoded defensively everywhere: decoding a
\* ComponentData message with a metric sample whose bounds are invalid
\* (lower above upper) raises nothing and gives a ComponentDataSamples in
\* which no bounds are invalid; and decoding a Component message with
\* invalid config bounds raises nothing, records a major issue and leaves
\* the bounds out of rated_bounds.
C12_SampleBoundsDefensive ==
    /\ (decoded # None /\ "metric_samples" \in DOMAIN wire_message) =>
          /\ decoded[1].raised = "none"
          /\ \A n \in 1..Len(decoded[1].value.metrics) :
                \A k \in 1..Len(decoded[1].value.metrics[n].bounds) :
                    ~InvalidWireBounds(decoded[1].value.metrics[n].bounds[k])
    /\ (decoded # None /\ "category" \in DOMAIN wire_message) =>
          /\ decoded[1].raised = "none"
          /\ \A metric \in DOMAIN decoded[1].value[1].rated_bounds :
                ~InvalidWireBounds(decoded[1].value[1].rated_bounds[metric])
          /\ (\E n \in 1..Len(wire_message.metric_config_bounds) :
                /\ wire_message.metric_config_bounds[n].config_bounds # None
                /\ InvalidWireBounds(wire_message.metric_config_bounds[n].config_bounds[1]))
             => \E k \in 1..Len(decoded[1].major) :
                    decoded[1].major[k] = "metric_config_bounds is invalid"

\* The message the decoder was given is a Component or a
\* ComponentConnection message, and the decoder has run.
DecodedWithLifetime ==
    /\ decoded # None
    /\ "category" \in DOMAIN wire_message \/ "source_component_id" \in DOMAIN wire_message

HasIssue(issues, text) == \E k \in 1..Len(issues) : issues[k] = text

\* C13: for component and connection messages alike the decoder never
\* raises; an operational_lifetime with start after end is decoded as the
\* unbounded Lifetime (start = end = None) with a major issue recorded, a
\* missing one as the unbounded Lifetime with a minor issue; so the Lifetime
\* of every decoded component or connection has start <= end whenever both
\* are set.
C13_LifetimeDowngraded ==
    DecodedWithLifetime =>
        /\ decoded[1].raised = "none"
        /\ LET wire == wire_message.operational_lifetime
               lifetime == decoded[1].value[1].operational_lifetime
           IN  /\ (wire # None /\ wire[1].start # None /\ wire[1].end # None
                   /\ wire[1].start[1] > wire[1].end[1])
                    => /\ lifetime = [start |-> None, end |-> None]
                       /\ HasIssue(decoded[1].major, "invalid operational lifetime")
               /\ wire = None
                    => /\ lifetime = [start |-> None, end |-> None]
                       /\ HasIssue(decoded[1].minor, "missing operational lifetime")
               /\ (lifetime.start # None /\ lifetime.end # None)
                    => lifetime.start[1] <= lifetime.end[1]

\* A connection whose lifetime on the wire starts after it ends was decoded
\* into a connection with the unbounded lifetime.
C13_Witness ==
    /\ decoded # None
    /\ "source_component_id" \in DOMAIN wire_message
    /\ wire_message.operational_lifetime = Some([start |-> Some(2), end |-> Some(1)])
    /\ decoded[1].raised = "none"
    /\ decoded[1].value[1].operational_lifetime = UnboundedLifetime
    /\ decoded[1].log = <<"warning">>

\* A message arrives at broadcaster i in this step.
MessageArrives(i) == Len(pumps'[i].upstream) = Len(pumps[i].upstream) + 1

\* The upstream call broadcaster i has open has brought a message that did
\* not decode.
FailedOnThisCall(i) ==
    \E p \in 1..Len(pumps[i].upstream) :
        /\ pumps[i].upstream[p].call = pumps[i].opens
        /\ DecodedSince(pumps[i].upstream, p - 1) = DecodedSince(pumps[i].upstream, p)

\* C14: a message that fails to decode is skipped and the pump keeps
\* running: the step leaves the pump streaming on the same upstream call,
\* its channel open, its retries and its receivers as they were; and every
\* later message of that call that decodes is sent to every receiver, with
\* the pump still streaming.
C14_DecodeFailureSkipped ==
    [][\A i \in 1..Len(pumps) :
        /\ (/\ MessageArrives(i)
            /\ DecodedSince(pumps'[i].upstream, Len(pumps[i].upstream)) = <<>>) =>
                /\ pumps'[i].pc = "streaming"
                /\ ~pumps'[i].closed
                /\ pumps'[i].retries = pumps[i].retries
                /\ pumps'[i].opens = pumps[i].opens
                /\ pumps'[i].receivers = pumps[i].receivers
        /\ (/\ MessageArrives(i)
            /\ FailedOnThisCall(i)
            /\ DecodedSince(pumps'[i].upstream, Len(pumps[i].upstream)) # <<>>) =>
                LET value == DecodedSince(pumps'[i].upstream, Len(pumps[i].upstream))[1]
                IN  /\ pumps'[i].pc = "streaming"
                    /\ pumps'[i].retries = pumps[i].retries
                    /\ pumps'[i].opens = pumps[i].opens
                    /\ \A j \in 1..Len(pumps[i].receivers) :
                        LET after == pumps'[i].receivers[j].buffer
                        IN  after # <<>> /\ after[Len(after)] = value
      ]_vars

\* C14 witness: the first message of the first upstream call did not
\* decode, the second message of the same call did, and both receivers of
\* the broadcaster, subscribed from the start, hold the value of the second.
C14_Witness ==
    /\ Len(pumps) >= 1
    /\ pumps[1].metrics # {}
    /\ pumps[1].pc = "streaming"
    /\ pumps[1].opens = 1
    /\ pumps[1].retries = 0
    /\ Len(pumps[1].upstream) = 2
    /\ pumps[1].upstream[1].message.metric_samples[1].bounds = <<InvalidBounds>>
    /\ pumps[1].upstream[2].message.metric_samples[1].bounds = <<ValidBounds>>
    /\ pumps[1].upstream[2].call = 1
    /\ Len(pumps[1].receivers) = 2
    /\ \A j \in 1..2 :
        /\ pumps[1].receivers[j].since = 0
        /\ Len(pumps[1].receivers[j].buffer) = 1
        /\ pumps[1].receivers[j].buffer[1].metrics[1].sampled_at = 2

\* The owner of receiver j of broadcaster i closes it in this step.
ReceiverCloses(i, j) ==
    /\ pumps[i].receivers[j].status = "open"
    /\ pumps'[i].receivers[j].status = "closed"

\* C15: the step that closes the client stops the pump of every broadcaster
\* the client has created, with its upstream call ended and its channel
\* closed, so that all its receivers come to the end of the stream; once
\* the client is closed no pump opens or reopens an upstream call; and the
\* closing of one receiver leaves the other receivers of the broadcaster and
\* its upstream call as they were.
C15_CloseStopsPumps ==
    /\ [][(~client_closed /\ client_closed') =>
            \A i \in 1..Len(pumps') :
                pumps'[i].pc = "stopped" /\ pumps'[i].closed]_vars
    /\ [][client_closed =>
            \A i \in 1..Len(pumps) :
                /\ pumps'[i].opens = pumps[i].opens
                /\ pumps'[i].pc = "streaming" => pumps[i].pc = "streaming"]_vars
    /\ [][\A i \in 1..Len(pumps) : \A j \in 1..Len(pumps[i].receivers) :
            ReceiverCloses(i, j) =>
                /\ pumps'[i].pc = pumps[i].pc
                /\ pumps'[i].opens = pumps[i].opens
                /\ pumps'[i].upstream = pumps[i].upstream
                /\ pumps'[i].closed = pumps[i].closed
                /\ \A k \in 1..Len(pumps[i].receivers) :
                    k # j => pumps'[i].receivers[k] = pumps[i].receivers[k]]_vars

\* The decoded form an integer of the wire has to take: the member of the
\* enum with that value when there is one, the integer itself otherwise.
KeptAs(value, members) ==
    IF value \in members THEN [kind |-> "enum", value |-> value]
    ELSE [kind |-> "int", value |-> value]

\* The codes of a decoded set are those of the wire, each kept as above.
CodesKept(codes, decoded_set, members) ==
    decoded_set = {KeptAs(codes[n], members) : n \in 1..Len(codes)}

\* The class of a battery, an EV charger or an inverter of a known type.
ClassOfType(which, value) ==
    CASE which = "battery" /\ value = 1 -> "LiIonBattery"
      [] which = "ev_charger" /\ value = 1 -> "AcEvCharger"
      [] which = "inverter" /\ value = 1 -> "BatteryInverter"

TypedCategory(which) ==
    CASE which = "battery" -> 5
      [] which = "ev_charger" -> 6
      [] which = "inverter" -> 3

TypesOf(which) ==
    CASE which = "battery" -> {0, 1, 2}
      [] which = "ev_charger" -> {0, 1, 2, 3}
      [] which = "inverter" -> {0, 1, 2, 3}

UnrecognizedClassOf(which) ==
    CASE which = "battery" -> "UnrecognizedBattery"
      [] which = "ev_charger" -> "UnrecognizedEvCharger"
      [] which = "inverter" -> "UnrecognizedInverter"

\* C16: an enum integer the client does not know is kept as that integer
\* and never coerced to UNSPECIFIED or UNKNOWN, and a known integer decodes
\* to the member with that value: the category and the status of a decoded
\* component; an unknown category gives UnrecognizedComponent; the type of a
\* battery, an EV charger or an inverter gives the Unrecognized* class with
\* that integer as its type when unknown and the class of the type when
\* known; and the states, warnings and errors of a decoded state sample are
\* the codes of the message, unknown ones as integers.
C16_UnknownEnumKept ==
    /\ (decoded # None /\ "category" \in DOMAIN wire_message) =>
          /\ decoded[1].raised = "none"
          /\ LET component == decoded[1].value[1]
                 which == wire_message.metadata.which
             IN  /\ component.category =
                        KeptAs(wire_message.category, ComponentCategory)
                 /\ component.status = KeptAs(wire_message.status, ComponentStatus)
                 /\ wire_message.category \notin ComponentCategory =>
                        component.cls = "UnrecognizedComponent"
                 /\ (/\ which \in {"battery", "ev_charger", "inverter"}
                     /\ wire_message.category = TypedCategory(which)) =>
                        IF wire_message.metadata.value \in TypesOf(which)
                        THEN /\ component.cls = ClassOfType(which, wire_message.metadata.value)
                             /\ component.extra = None
                        ELSE /\ component.cls = UnrecognizedClassOf(which)
                             /\ component.extra = Some(wire_message.metadata.value)
    /\ (decoded # None /\ "metric_samples" \in DOMAIN wire_message
        /\ decoded[1].raised = "none") =>
          /\ Len(decoded[1].value.states) = Len(wire_message.states)
          /\ \A n \in 1..Len(wire_message.states) :
                LET wire == wire_message.states[n]
                    sample == decoded[1].value.states[n]
                IN  /\ CodesKept(wire.states, sample.states, ComponentStateCode)
                    /\ CodesKept(wire.warnings, sample.warnings, ComponentErrorCode)
                    /\ CodesKept(wire.errors, sample.errors, ComponentErrorCode)
          /\ \A n \in 1..Len(wire_message.metric_samples) :
                decoded[1].value.metrics[n].metric =
                    KeptAs(wire_message.metric_samples[n].metric, Metric)

\* C16 witness: a state sample with the states READY and 999, the warning
\* 77 and the error 1000 was decoded.
C16_Witness ==
    /\ decoded # None
    /\ "metric_samples" \in DOMAIN wire_message
    /\ Len(wire_message.states) = 1
    /\ wire_message.states[1].states = <<7, 999>>
    /\ decoded[1].raised = "none"
    /\ decoded[1].value.states[1].states = {Member(7), RawInt(999)}
    /\ decoded[1].value.states[1].warnings = {RawInt(77)}
    /\ decoded[1].value.states[1].errors = {RawInt(1000)}

\* The enums that define a member UNKNOWN.
HasUnknown(cls) == \E n \in 1..Len(MembersOf(cls)) : MembersOf(cls)[n] = "UNKNOWN"

\* C17: from_pb of a legacy state enum never raises; for a value of a
\* member it returns that member; for any other value it returns UNKNOWN in
\* the enums that define it (BatteryComponentState, EVChargerComponentState,
\* InverterComponentState) and UNSPECIFIED in those that do not
\* (BatteryRelayState, EVChargerCableState).
C17_FromPbTotal ==
    (decoded # None /\ "state" \in DOMAIN wire_message) =>
        /\ decoded[1].raised = "none"
        /\ LET cls == wire_message.cls
               member == decoded[1].value[1]
               known == \E n \in 1..Len(MembersOf(cls)) : n - 1 = wire_message.state
           IN  /\ member.cls = cls
               /\ known => /\ member.value = wire_message.state
                           /\ member.name = MembersOf(cls)[wire_message.state + 1]
               /\ ~known => member.name = IF HasUnknown(cls) THEN "UNKNOWN"
                                          ELSE "UNSPECIFIED"
               /\ HasUnknown(cls) <=> cls \in {"BatteryComponentState",
                                               "EVChargerComponentState",
                                               "InverterComponentState"}

\* C17 witness: a relay state the client does not know came out as
\* UNSPECIFIED.
C17_Witness ==
    /\ decoded # None
    /\ "state" \in DOMAIN wire_message
    /\ wire_message.cls = "BatteryRelayState"
    /\ wire_message.state = 11
    /\ decoded[1].raised = "none"
    /\ decoded[1].value[1].name = "UNSPECIFIED"
    /\ decoded[1].value[1].value = 0

\* C18: a lifetime is the half-open interval [start, end), None being
\* unbounded on that side: active is true exactly when (start is None or
\* start <= now) and (end is None or now < end), for a Lifetime and for a
\* ComponentConnection alike; a lifetime whose end is the current instant is
\* not active.
C18_ActiveHalfOpen ==
    (decoded # None /\ "now" \in DOMAIN wire_message) =>
        LET l == wire_message.operational_lifetime
            now == wire_message.now
        IN  decoded[1] <=> (/\ l.start = None \/ l.start[1] <= now
                            /\ l.end = None \/ now < l.end[1])

\* C19: a connection whose source equals its destination is flagged, not
\* rejected: component_connection_from_proto records a major issue, logs a
\* warning and returns a ComponentConnection whose source and destination
\* are the ids of the message; and list_connections, when its call
\* succeeds, returns one connection per entry of the response, in order and
\* with the ids of the entry, the connections of a component to itself
\* included.
C19_SelfLoopFlagged ==
    /\ (decoded # None /\ "source_component_id" \in DOMAIN wire_message) =>
          /\ decoded[1].raised = "none"
          /\ decoded[1].value[1].cls = "ComponentConnection"
          /\ decoded[1].value[1].source = wire_message.source_component_id
          /\ decoded[1].value[1].destination = wire_message.destination_component_id
          /\ (wire_message.source_component_id = wire_message.destination_component_id)
                => /\ HasIssue(decoded[1].major, "source and destination are the same")
                   /\ HasIssue(decoded[1].log, "warning")
    /\ (decoded # None /\ "connections" \in DOMAIN wire_message) =>
          /\ decoded[1].raised \in {"none", "ApiClientError"}
          /\ decoded[1].raised = "none" =>
                /\ Len(decoded[1].value) = Len(wire_message.connections)
                /\ \A n \in 1..Len(wire_message.connections) :
                      /\ decoded[1].value[n].source =
                            wire_message.connections[n].source_component_id
                      /\ decoded[1].value[n].destination =
                            wire_message.connections[n].destination_component_id

\* C19 witness: a response with a connection of component 0 to itself
\* followed by a connection from 7 to 9 was listed as two connections.
C19_Witness ==
    /\ decoded # None
    /\ "connections" \in DOMAIN wire_message
    /\ Len(wire_message.connections) = 2
    /\ wire_message.connections[1].source_component_id = 0
    /\ wire_message.connections[1].destination_component_id = 0
    /\ decoded[1].raised = "none"
    /\ Len(decoded[1].value) = 2
    /\ decoded[1].value[1].source = 0
    /\ decoded[1].value[1].destination = 0
    /\ decoded[1].value[2].source = 7
    /\ decoded[1].value[2].destination = 9

\* C20: receive_component_data_samples_stream called with no metric raises
\* an error to its caller and hands back no receiver: the call does not
\* return normally, and no broadcaster of an empty set of metrics has a
\* receiver.
C20_NoMetricRaises ==
    /\ (last_sub.method = "receive_component_data_samples_stream"
        /\ last_sub.metrics = <<>>) => last_sub.outcome # "ok"
    /\ \A i \in 1..Len(pumps) :
          (pumps[i].transform = "component_data_sample_from_proto"
           /\ pumps[i].metrics = {}) => pumps[i].receivers = <<>>

\* C21: a registry entry is created only by the first subscription for its
\* key and then stays: in every step every key of the registry is kept,
\* bound to the broadcaster it was bound to, which is still the broadcaster
\* of the same component and metrics; and a step that adds a key is a
\* subscription that found nothing under that key, constructed one
\* broadcaster and bound the key to it.
C21_RegistryOnlyGrows ==
    [][/\ \A key \in DOMAIN broadcasters :
            /\ key \in DOMAIN broadcasters'
            /\ broadcasters'[key] = broadcasters[key]
            /\ broadcasters[key] <= Len(pumps')
            /\ pumps'[broadcasters[key]].component_id = pumps[broadcasters[key]].component_id
            /\ pumps'[broadcasters[key]].metrics = pumps[broadcasters[key]].metrics
       /\ DOMAIN broadcasters' # DOMAIN broadcasters =>
            /\ sub_count' = sub_count + 1
            /\ last_sub'.created
            /\ Len(pumps') = Len(pumps) + 1
            /\ DOMAIN broadcasters' \ DOMAIN broadcasters =
                    {StreamKey(_get_component_id(last_sub'.component),
                               MetricsSet(last_sub'.metrics))}
            /\ broadcasters'[StreamKey(_get_component_id(last_sub'.component),
                                       MetricsSet(last_sub'.metrics))] = Len(pumps')
      ]_vars

\* C21 witness: two keys are in the registry, the first still bound to the
\* first broadcaster, whose pump has run out of retries in the meantime.
C21_Witness ==
    /\ Cardinality(DOMAIN broadcasters) = 2
    /\ Len(pumps) = 2
    /\ \E key \in DOMAIN broadcasters : broadcasters[key] = 1
    /\ \E key \in DOMAIN broadcasters : broadcasters[key] = 2
    /\ pumps[1].pc = "stopped"

\* The ids of the components of a filter, in the order they were given.
IdsOf(filter) == [n \in 1..Len(filter) |-> filter[n].id]

\* C22: list_connections makes exactly one ListConnections request, whose
\* starts and ends are the ids of the sources and destinations it was given
\* (both empty when none are given), whether or not the call succeeds; when
\* it succeeds the result has one connection per connection of the response,
\* in its order and with its ids, equal entries included.
C22_OneRequestAllConnections ==
    (decoded # None /\ "connections" \in DOMAIN wire_message) =>
        /\ last_op.op = "list_connections"
        /\ call_count = last_op.calls_before + 1
        /\ call_args = Some([method |-> "ListConnections",
                             starts |-> IdsOf(last_op.first),
                             ends |-> IdsOf(last_op.second)])
        /\ (last_op.first = <<>> /\ last_op.second = <<>>) =>
                (call_args[1].starts = <<>> /\ call_args[1].ends = <<>>)
        /\ (last_op.outcome = "ok") <=> (decoded[1].raised = "none")
        /\ decoded[1].raised = "none" =>
                /\ Len(decoded[1].value) = Len(wire_message.connections)
                /\ \A n \in 1..Len(wire_message.connections) :
                      /\ decoded[1].value[n].cls = "ComponentConnection"
                      /\ decoded[1].value[n].source =
                            wire_message.connections[n].source_component_id
                      /\ decoded[1].value[n].destination =
                            wire_message.connections[n].destination_component_id
                      /\ decoded[1].value[n].operational_lifetime = UnboundedLifetime

\* C22 witness: asked for the connections from the Component 7 and the
\* ComponentId 83 to anything, the client sent starts 7, 83 and no ends, and
\* of a response with the connection from 7 to 9 twice it returned both.
C22_Witness ==
    /\ decoded # None
    /\ "connections" \in DOMAIN wire_message
    /\ last_op.op = "list_connections"
    /\ last_op.first = <<[kind |-> "Component", id |-> 7], [kind |-> "ComponentId", id |-> 83]>>
    /\ last_op.second = <<>>
    /\ call_count = 1
    /\ call_args[1].starts = <<7, 83>>
    /\ call_args[1].ends = <<>>
    /\ Len(wire_message.connections) = 2
    /\ wire_message.connections[1] = wire_message.connections[2]
    /\ wire_message.connections[1].source_component_id = 7
    /\ wire_message.connections[1].destination_component_id = 9
    /\ decoded[1].raised = "none"
    /\ Len(decoded[1].value) = 2
    /\ decoded[1].value[1] = decoded[1].value[2]

\* How many messages of this severity a log holds.
Logged(log, severity) == Cardinality({k \in 1..Len(log) : log[k] = severity})

\* A lifetime on the wire whose start is after its end.
InvalidWireLifetime(lifetime) ==
    /\ lifetime # None
    /\ lifetime[1].start # None /\ lifetime[1].end # None
    /\ lifetime[1].start[1] > lifetime[1].end[1]

\* A Component message with one of the defects that count as major: status
\* or category unspecified or unrecognized, metadata of another category, a
\* lifetime or bounds that are invalid.
MajorDefect(message) ==
    \/ message.status = 0 \/ message.status \notin ComponentStatus
    \/ message.category = 0 \/ message.category \notin ComponentCategory
    \/ /\ message.metadata.which # ""
       /\ message.category \in ComponentCategory
       /\ MetadataOwner(message.metadata.which) # message.category
    \/ InvalidWireLifetime(message.operational_lifetime)
    \/ \E n \in 1..Len(message.metric_config_bounds) :
          /\ message.metric_config_bounds[n].config_bounds # None
          /\ InvalidWireBounds(message.metric_config_bounds[n].config_bounds[1])

\* A Component message with one of the defects that count as minor: an empty
\* name, manufacturer or model name, no lifetime.
MinorDefect(message) ==
    \/ message.name = "" \/ message.manufacturer = "" \/ message.model_name = ""
    \/ message.operational_lifetime = None

\* C23: component_from_proto and component_connection_from_proto return the
\* decoded value whatever the issues, and log exactly one warning when at
\* least one major issue was recorded and none otherwise, exactly one debug
\* message when at least one minor issue was recorded and none otherwise,
\* and nothing else; a message with a major defect (status or category
\* unspecified or unrecognized, mismatched metadata, invalid lifetime or
\* bounds; for a connection an invalid lifetime) has a major issue and one
\* with a minor defect (empty name, manufacturer or model name, missing
\* lifetime) a minor one; a meter or a connection with no defect logs
\* nothing.
C23_TwoSeverities ==
    (decoded # None /\ ("category" \in DOMAIN wire_message
                        \/ "source_component_id" \in DOMAIN wire_message)) =>
        /\ decoded[1].raised = "none"
        /\ decoded[1].value # None
        /\ Logged(decoded[1].log, "warning") = IF decoded[1].major # <<>> THEN 1 ELSE 0
        /\ Logged(decoded[1].log, "debug") = IF decoded[1].minor # <<>> THEN 1 ELSE 0
        /\ Len(decoded[1].log) = Logged(decoded[1].log, "warning")
                                 + Logged(decoded[1].log, "debug")
        /\ "category" \in DOMAIN wire_message =>
              /\ MajorDefect(wire_message) => Logged(decoded[1].log, "warning") = 1
              /\ MinorDefect(wire_message) => Logged(decoded[1].log, "debug") = 1
              /\ (/\ ~MajorDefect(wire_message) /\ ~MinorDefect(wire_message)
                  /\ wire_message.category = 2
                  /\ wire_message.metadata.which = ""
                  /\ wire_message.metric_config_bounds = <<>>) => decoded[1].log = <<>>
        /\ "source_component_id" \in DOMAIN wire_message =>
              /\ InvalidWireLifetime(wire_message.operational_lifetime)
                    => Logged(decoded[1].log, "warning") = 1
              /\ wire_message.operational_lifetime = None
                    => Logged(decoded[1].log, "debug") = 1
              /\ (/\ wire_message.source_component_id
                        # wire_message.destination_component_id
                  /\ wire_message.operational_lifetime # None
                  /\ ~InvalidWireLifetime(wire_message.operational_lifetime))
                    => decoded[1].log = <<>>

\* C23 witness: a battery message with status UNSPECIFIED and an empty
\* manufacturer was decoded into a Battery, with one warning and one debug
\* message logged.
C23_Witness ==
    /\ decoded # None
    /\ "category" \in DOMAIN wire_message
    /\ wire_message.category = 5
    /\ wire_message.status = 0
    /\ wire_message.manufacturer = ""
    /\ wire_message.name = "bat"
    /\ decoded[1].raised = "none"
    /\ decoded[1].value # None
    /\ decoded[1].log = <<"warning", "debug">>
    /\ HasIssue(decoded[1].major, "status is unspecified")
    /\ HasIssue(decoded[1].minor, "manufacturer is empty")

\* C24: _category_matches(metadata_category, category) is true exactly when
\* the metadata name is the one of the category (its name in lower case,
\* grid_connection_point read as grid), and false when the two differ.
C24_CategoryMatchesTrueOnMatch ==
    (decoded # None /\ "metadata_category" \in DOMAIN wire_message) =>
        LET cat_name == CategoryNameLower(wire_message.category)
            expected == IF cat_name = "grid_connection_point" THEN "grid" ELSE cat_name
        IN  decoded[1] <=> (expected = wire_message.metadata_category)

\* C25: under every interleaving of concurrent callers with each other and
\* with the pumps and subscribers, no two broadcasters exist for one key and
\* every caller that returned holds a receiver of the broadcaster the
\* registry has for its key; a caller goes from the lookup to the return in
\* one step, after which the registry has its key.
C25_NoDoubleCreate ==
    /\ [](/\ \A i, j \in 1..Len(pumps) :
                StreamKey(pumps[i].component_id, pumps[i].metrics)
                    = StreamKey(pumps[j].component_id, pumps[j].metrics) => i = j
          /\ Len(pumps) = Cardinality(DOMAIN broadcasters)
          /\ \A t \in 1..Len(callers) :
                callers[t].pc = "returned" =>
                    /\ CallerKey(t) \in DOMAIN broadcasters
                    /\ callers[t].receiver[1][1] = broadcasters[CallerKey(t)])
    /\ [][\A t \in 1..Len(callers) :
            (callers[t].pc = "ready" /\ callers'[t] # callers[t]) =>
                /\ callers'[t].pc = "returned"
                /\ CallerKey(t) \in DOMAIN broadcasters'
         ]_vars

\* C25 witness: two callers asked for the same key; the pump of the
\* broadcaster the first one created had already delivered a message when the
\* second one ran, and there is still one broadcaster, with both receivers.
C25_Witness ==
    /\ Len(callers) = 2
    /\ callers[1].pc = "returned"
    /\ callers[2].pc = "returned"
    /\ CallerKey(1) = CallerKey(2)
    /\ Len(pumps) = 1
    /\ Len(pumps[1].receivers) = 2
    /\ callers[1].receiver # callers[2].receiver
    /\ \E j \in 1..2 : pumps[1].receivers[j].since >= 1

\* C26: subscriptions for one component with different sets of metrics never
\* share a broadcaster: the receiver a stream request returns is one of a
\* broadcaster made for the component of the request and whose stream was
\* opened for the metrics of the request.
C26_DistinctSetsDistinctStreams ==
    last_sub.method = "receive_component_data_samples_stream" =>
        /\ pumps[last_sub.index].component_id = _get_component_id(last_sub.component)
        /\ pumps[last_sub.index].metrics = MetricsSet(last_sub.metrics)

RoundedSeconds(tenths) ==
    CASE tenths = 94 -> 9
      [] tenths = 95 -> 10
      [] tenths = 600 -> 60
      [] tenths = 9005 -> 900
      [] tenths = 9015 -> 902

\* C29: the request lifetime is rounded to whole seconds, half to even,
\* before anything else; when the arguments are validated a request whose
\* rounded lifetime is outside [10, 900] is rejected with no call made (9.4 s
\* and 901.5 s are, 9.5 s and 900.5 s are not); the request that is sent
\* carries the rounded value (10 for 9.5 s, 900 for 900.5 s); with no
\* lifetime given nothing is checked of it and none is sent.
C29_RoundedThenChecked ==
    IsSetPower(last_op.op) =>
        LET rounded == IF last_op.delta = None THEN None
                       ELSE Some(RoundedSeconds(last_op.delta[1]))
            out_of_range == rounded # None /\ (rounded[1] < 10 \/ rounded[1] > 900)
            called == call_count = last_op.calls_before + 1
        IN  /\ last_op.seconds = rounded
            /\ (last_op.validate /\ last_op.power # "nan") =>
                    /\ out_of_range <=> last_op.outcome = "ValueError"
                    /\ out_of_range <=> ~called
            /\ ~last_op.validate => called
            /\ called => /\ call_args # None
                         /\ call_args[1].request_lifetime = rounded
            /\ ~called => call_count = last_op.calls_before
            /\ last_op.delta \in {Some(94), Some(9015)} => out_of_range
            /\ last_op.delta \in {Some(95), Some(9005), None} => ~out_of_range

\* C29 witness: a validated request with a lifetime of 900.5 s was sent with
\* a lifetime of 900.
C29_Witness ==
    /\ IsSetPower(last_op.op)
    /\ last_op.validate
    /\ last_op.delta = Some(9005)
    /\ last_op.outcome = "ok"
    /\ call_count = last_op.calls_before + 1
    /\ call_args[1].request_lifetime = Some(900)

\* The entries of the response the caller holds.
ResponseEntries ==
    IF "components" \in DOMAIN wire_message THEN wire_message.components
    ELSE wire_message.connections

\* The logs of the first n entries, one after the other.
RECURSIVE LogsOfFirst(_, _, _)
LogsOfFirst(function, entries, n) ==
    IF n = 0 THEN <<>>
    ELSE LogsOfFirst(function, entries, n - 1)
            \o MapFunction(function, entries[n]).log

\* C30: list_components and list_connections make their request before
\* they return, and what they return decodes lazily and can be iterated
\* once: when the call has returned and nothing was pulled, nothing is
\* decoded or logged; the entries decoded and the issues logged so far are
\* those of the values pulled so far; a first iteration that runs to its end
\* yields one value per entry of the response, in its order; an iteration
\* started after that yields nothing.
C30_LazySinglePass ==
    (decoded # None /\ ("components" \in DOMAIN wire_message
                        \/ "connections" \in DOMAIN wire_message)) =>
        /\ call_count = 1
        /\ decoded[1].raised = "none" =>
            LET it == decoded[1]
            IN  /\ it.entries = ResponseEntries
                /\ it.passes = <<>> => (it.position = 0 /\ it.log = <<>>)
                /\ it.passes # <<>> =>
                        /\ it.position = Len(it.passes[1].yielded)
                        /\ it.log = LogsOfFirst(it.function, it.entries,
                                                Len(it.passes[1].yielded))
                        /\ \A n \in 1..Len(it.passes[1].yielded) :
                                it.passes[1].yielded[n] =
                                    MapFunction(it.function, it.entries[n]).value[1]
                        /\ it.passes[1].done =>
                                Len(it.passes[1].yielded) = Len(it.entries)
                /\ \A k \in 2..Len(it.passes) : it.passes[k].yielded = <<>>

\* C30 witness: a response of two connections was iterated over to the end,
\* giving the two connections and two debug messages, and a second iteration
\* over the same object has ended without a value.
C30_Witness ==
    /\ decoded # None
    /\ "connections" \in DOMAIN wire_message
    /\ Len(wire_message.connections) = 2
    /\ decoded[1].raised = "none"
    /\ Len(decoded[1].passes) = 2
    /\ decoded[1].passes[1].done
    /\ Len(decoded[1].passes[1].yielded) = 2
    /\ decoded[1].passes[1].yielded[1].source = wire_message.connections[1].source_component_id
    /\ decoded[1].passes[2].done
    /\ decoded[1].passes[2].yielded = <<>>
    /\ Len(decoded[1].log) >= 2

\* ------------------------------------------------------------------------
\* Specifications
\* ------------------------------------------------------------------------

EmptyRegistry == [k \in {} |-> 0]

StreamIdle ==
    /\ hash_of = InjectiveHash
    /\ retry_limit = None
    /\ broadcasters = EmptyRegistry
    /\ pumps = <<>>
    /\ last_sub = NoSub
    /\ sub_count = 0
    /\ client_closed = FALSE
    /\ callers = <<>>

\* Each part of the client before anything was asked of it.
PowerIdle == call_count = 0 /\ call_args = None /\ last_op = NoOp

DecodeIdle == wire_message = PlainMessage /\ decoded = None

ErrorIdle == grpc_failure = PlainFailure /\ client_error = None

InitDecode ==
    /\ wire_message \in ComponentMessages
    /\ decoded = None
    /\ PowerIdle /\ ErrorIdle /\ StreamIdle

NextDecode == DecodeComponent

SpecDecode == InitDecode /\ [][NextDecode]_vars

InitError ==
    /\ grpc_failure \in GrpcFailures
    /\ client_error = None
    /\ PowerIdle /\ DecodeIdle /\ StreamIdle

NextError == ConvertGrpcError

SpecError == InitError /\ [][NextError]_vars

InitPower == PowerIdle /\ DecodeIdle /\ ErrorIdle /\ StreamIdle

NextPower ==
    \/ set_component_power_active
    \/ set_component_power_reactive
    \/ set_bounds

SpecPower == InitPower /\ [][NextPower]_vars

Init ==
    /\ PowerIdle /\ DecodeIdle /\ ErrorIdle
    /\ hash_of \in HashFunctions
    /\ retry_limit \in RetryLimits
    /\ broadcasters = EmptyRegistry
    /\ pumps = <<>>
    /\ last_sub = NoSub
    /\ sub_count = 0
    /\ client_closed = FALSE
    /\ callers = <<>>

Next ==
    \/ receive_component_data_samples_stream
    \/ \E i \in 1..Len(pumps) : PumpOpen(i)
    \/ \E i \in 1..Len(pumps) : PumpMessage(i)
    \/ \E i \in 1..Len(pumps) : PumpStreamEnds(i)
    \/ \E i \in 1..Len(pumps) : PumpWake(i)
    \/ \E i \in 1..Len(pumps) : \E j \in 1..Len(pumps[i].receivers) : Receive(i, j)

Spec == Init /\ [][Next]_vars

\* The sleep of a pump ends, the call it makes returns, and a subscriber
\* that waits on its receiver is served.
Fairness ==
    \A i \in 1..MaxSubscriptions :
        /\ WF_vars(i <= Len(pumps) /\ PumpWake(i))
        /\ WF_vars(i <= Len(pumps) /\ PumpOpen(i))
        /\ \A j \in 1..MaxSubscriptions :
            WF_vars(i <= Len(pumps) /\ j <= Len(pumps[i].receivers) /\ Receive(i, j))

\* The hash of the process plays no part in the retries.
FairInit == Init /\ hash_of = InjectiveHash

\* The client with its streams, asked for at least one metric.
FairNext ==
    \/ receive_component_data_samples_stream /\ last_sub'.metrics # <<>>
    \/ \E i \in 1..Len(pumps) : PumpOpen(i)
    \/ \E i \in 1..Len(pumps) : PumpMessage(i)
    \/ \E i \in 1..Len(pumps) : PumpStreamEnds(i)
    \/ \E i \in 1..Len(pumps) : PumpWake(i)
    \/ \E i \in 1..Len(pumps) : \E j \in 1..Len(pumps[i].receivers) : Receive(i, j)

FairSpec == FairInit /\ [][FairNext]_vars /\ Fairness

\* The client used through its typed data methods.
NextTyped ==
    \/ meter_data
    \/ battery_data
    \/ \E i \in 1..Len(pumps) : PumpOpen(i)
    \/ \E i \in 1..Len(pumps) : PumpMessage(i)
    \/ \E i \in 1..Len(pumps) : PumpStreamEnds(i)
    \/ \E i \in 1..Len(pumps) : PumpWake(i)
    \/ \E i \in 1..Len(pumps) : \E j \in 1..Len(pumps[i].receivers) : Receive(i, j)

SpecTyped == Init /\ [][NextTyped]_vars

\* The read side of the client: a message or a response of the server, and
\* the decoder or the read operation applied to it.
InitRead ==
    /\ wire_message \in ComponentMessages \cup ConnectionMessages \cup SampleMessages
                        \cup ComponentListResponses \cup ConnectionListResponses
    /\ decoded = None
    /\ PowerIdle /\ ErrorIdle /\ StreamIdle

NextRead ==
    \/ ("category" \in DOMAIN wire_message /\ DecodeComponent)
    \/ DecodeConnection
    \/ DecodeSample
    \/ list_components
    \/ list_connections

SpecRead == InitRead /\ [][NextRead]_vars

\* The client with its streams, closed at some point by its owner, and with
\* receivers closed by theirs; streams are asked for at least one metric,
\* and the server ends no call that connected while the client is open.
NextClose ==
    \/ receive_component_data_samples_stream /\ last_sub'.metrics # <<>>
    \/ \E i \in 1..Len(pumps) : PumpOpen(i)
    \/ \E i \in 1..Len(pumps) : PumpMessage(i)
    \/ \E i \in 1..Len(pumps) : client_closed /\ PumpStreamEnds(i)
    \/ \E i \in 1..Len(pumps) : PumpWake(i)
    \/ \E i \in 1..Len(pumps) : \E j \in 1..Len(pumps[i].receivers) : Receive(i, j)
    \/ \E i \in 1..Len(pumps) : \E j \in 1..Len(pumps[i].receivers) : CloseReceiver(i, j)
    \/ CloseClient

SpecClose == FairInit /\ [][NextClose]_vars

\* The pure functions of the value classes: an input and the function
\* applied to it.
InitPure ==
    /\ wire_message \in PbStates \cup ActiveQueries \cup CategoryMatchQueries
    /\ decoded = None
    /\ PowerIdle /\ ErrorIdle /\ StreamIdle

NextPure == ConvertState \/ ReadActive \/ CheckCategoryMatches

SpecPure == InitPure /\ [][NextPure]_vars

\* Tasks calling the client concurrently, with the pumps and the subscribers
\* running in between.
InitTasks ==
    /\ PowerIdle /\ DecodeIdle /\ ErrorIdle
    /\ hash_of \in HashFunctions
    /\ retry_limit \in RetryLimits
    /\ broadcasters = EmptyRegistry
    /\ pumps = <<>>
    /\ last_sub = NoSub
    /\ sub_count = 0
    /\ client_closed = FALSE
    /\ callers \in ConcurrentCallers

NextTasks ==
    \/ \E t \in 1..Len(callers) : CallerStep(t)
    \/ \E i \in 1..Len(pumps) : PumpOpen(i)
    \/ \E i \in 1..Len(pumps) : PumpMessage(i)
    \/ \E i \in 1..Len(pumps) : PumpStreamEnds(i)
    \/ \E i \in 1..Len(pumps) : PumpWake(i)
    \/ \E i \in 1..Len(pumps) : \E j \in 1..Len(pumps[i].receivers) : Receive(i, j)

SpecTasks == InitTasks /\ [][NextTasks]_vars

\* An instance whose active is read again and again while time passes.
InitClock ==
    /\ wire_message \in ClockedInstances
    /\ decoded = None
    /\ PowerIdle /\ ErrorIdle /\ StreamIdle

NextClock == Tick \/ AccessActive

SpecClock == InitClock /\ [][NextClock]_vars

\* A read operation whose result the caller iterates over, once or twice.
InitIter ==
    /\ wire_message \in ComponentListResponses \cup ConnectionListResponses
    /\ decoded = None
    /\ PowerIdle /\ ErrorIdle /\ StreamIdle

NextIter == ListCall \/ IterStart \/ IterNext

SpecIter == InitIter /\ [][NextIter]_vars

====
